---- MODULE Spec2Model ----
(***************************************************************************)
(* A model of django-oscar-adyen's inbound message handling:               *)
(*   adyen/gateway.py   field validation, signature, response processors   *)
(*   adyen/facade.py    process_payment_feedback, audit trail, relevance   *)
(*   adyen/models.py    the AdyenTransaction table                         *)
(*                                                                         *)
(* Strings.  A Python string is modelled as a finite sequence of atoms     *)
(* (TLA+ strings that the program never looks inside): "abc" + "def" is    *)
(* \o, the empty string is << >>, and `a in b` is contiguous-subsequence   *)
(* containment.  Every literal the program searches for ('live',           *)
(* 'test_AUTHORISATION', 'additionalData.') is one atom, and no other atom *)
(* used below contains one of them as text.  Decimal numbers are written   *)
(* one digit per atom so that int() has something to parse.                *)
(*                                                                         *)
(* A message (dict / QueryDict) is a function from field names to values;  *)
(* an absent key is a name outside its DOMAIN.                             *)
(***************************************************************************)
EXTENDS Integers, Sequences, FiniteSets, Bags, TLC

VARIABLES config, store, last, deliveries

vars == <<config, store, last, deliveries>>

----------------------------------------------------------------------------
(* Generic helpers on strings and messages                                 *)

Range(s) == {s[i] : i \in DOMAIN s}

\* Python `sub in s` on strings.
Contains(s, sub) ==
    \E i \in 0..(Len(s) - Len(sub)) : SubSeq(s, i + 1, i + Len(sub)) = sub

\* Python ''.join(list) and sep.join(list) over a sequence of strings.
RECURSIVE Concat(_)
Concat(ss) == IF ss = <<>> THEN <<>> ELSE Head(ss) \o Concat(Tail(ss))

RECURSIVE Join(_, _)
Join(sep, ss) ==
    IF ss = <<>> THEN <<>>
    ELSE IF Len(ss) = 1 THEN Head(ss)
    ELSE Head(ss) \o sep \o Join(sep, Tail(ss))

\* dict.get(key, default)
Get(params, key, default) == IF key \in DOMAIN params THEN params[key] ELSE default

\* The message with no field.
NoParams == [k \in {} |-> <<>>]

\* dict with one key set (d[k] = v) and with one key deleted.
SetField(params, key, value) ==
    [k \in DOMAIN params \cup {key} |-> IF k = key THEN value ELSE params[k]]

DelField(params, key) == [k \in DOMAIN params \ {key} |-> params[k]]

----------------------------------------------------------------------------
(* gateway.Constants                                                       *)

ADYEN == <<"adyen">>
AUTH_RESULT == <<"authResult">>
CURRENCY == <<"currency">>
EVENT_CODE == <<"eventCode">>
EVENT_CODE_AUTHORISATION == <<"AUTHORISATION">>
EVENT_DATE == <<"eventDate">>
LIVE == <<"live">>
MERCHANT_ACCOUNT_CODE == <<"merchantAccountCode">>
MERCHANT_REFERENCE == <<"merchantReference">>
MERCHANT_RETURN_DATA == <<"merchantReturnData">>
MERCHANT_SIG == <<"merchantSig">>
OPERATIONS == <<"operations">>
ORIGINAL_REFERENCE == <<"originalReference">>
PAYMENT_METHOD == <<"paymentMethod">>
PAYMENT_RESULT_AUTHORISED == <<"AUTHORISED">>
PAYMENT_RESULT_REFUSED == <<"REFUSED">>
PAYMENT_RESULT_CANCELLED == <<"CANCELLED">>
PAYMENT_RESULT_PENDING == <<"PENDING">>
PAYMENT_RESULT_ERROR == <<"ERROR">>
PSP_REFERENCE == <<"pspReference">>
TEST_REFERENCE_PREFIX == <<"test_AUTHORISATION">>
REASON == <<"reason">>
SEPARATOR == <<":">>
SKIN_CODE == <<"skinCode">>
ADDITIONAL_DATA_PREFIX == <<"additionalData.">>
SHOPPER_LOCALE == <<"shopperLocale">>
SUCCESS == <<"success">>
TEST == <<"test">>
TRUE_ == <<"true">>
FALSE_ == <<"false">>
VALUE == <<"value">>
ALLOWED_METHODS == <<"allowedMethods">>
BILLING_ADDRESS_TYPE == <<"billingAddressType">>
BLOCKED_METHODS == <<"blockedMethods">>
COUNTRY_CODE == <<"countryCode">>
CURRENCY_CODE == <<"currencyCode">>
DELIVERY_ADDRESS_TYPE == <<"deliveryAddressType">>
MERCHANT_ACCOUNT == <<"merchantAccount">>
MERCHANT_RETURN_URL == <<"resURL">>
OFFSET == <<"offset">>
PAYMENT_AMOUNT == <<"paymentAmount">>
RECURRING_CONTRACT == <<"recurringContract">>
SESSION_VALIDITY == <<"sessionValidity">>
SHIP_BEFORE_DATE == <<"shipBeforeDate">>
SHOPPER_EMAIL == <<"shopperEmail">>
SHOPPER_REFERENCE == <<"shopperReference">>
SHOPPER_STATEMENT == <<"shopperStatement">>
SHOPPER_TYPE == <<"shopperType">>

----------------------------------------------------------------------------
(* gateway: response classes.  Gateway.__init__ picks                      *)
(* 'PaymentRedirection%s' % hmac_algorithm for GET and                     *)
(* 'PaymentNotification%s' % hmac_algorithm for POST.                      *)

HmacAlgorithms == {"SHA1", "SHA256"}

ResponseClass(method, hmac_algorithm) ==
    [kind |-> IF method = "GET" THEN "PaymentRedirection" ELSE "PaymentNotification",
     alg  |-> hmac_algorithm]

\* Gateway.build_payment_form_fields builds a PaymentFormRequest.
PaymentFormRequestClass(hmac_algorithm) ==
    [kind |-> "PaymentFormRequest", alg |-> hmac_algorithm]

PaymentFormRequiredFields ==
    << MERCHANT_ACCOUNT, MERCHANT_REFERENCE, SHOPPER_REFERENCE, SHOPPER_EMAIL,
       CURRENCY_CODE, PAYMENT_AMOUNT, SESSION_VALIDITY, SHIP_BEFORE_DATE >>

PaymentFormOptionalFields ==
    << MERCHANT_SIG, SKIN_CODE, RECURRING_CONTRACT, ALLOWED_METHODS, BLOCKED_METHODS,
       SHOPPER_STATEMENT, SHOPPER_LOCALE, COUNTRY_CODE, MERCHANT_RETURN_URL,
       MERCHANT_RETURN_DATA, BILLING_ADDRESS_TYPE, DELIVERY_ADDRESS_TYPE,
       SHOPPER_TYPE, OFFSET >>

NotificationRequiredFields ==
    << CURRENCY, EVENT_CODE, EVENT_DATE, LIVE, MERCHANT_ACCOUNT_CODE,
       MERCHANT_REFERENCE, PAYMENT_METHOD, PSP_REFERENCE, REASON, SUCCESS, VALUE >>

NotificationOptionalFields == << OPERATIONS, ORIGINAL_REFERENCE >>

\* The required fields without the signature field.
RedirectionRequiredFieldsWithoutSignature ==
    << AUTH_RESULT, MERCHANT_REFERENCE, SHOPPER_LOCALE, SKIN_CODE >>

RedirectionRequiredFields ==
    << AUTH_RESULT, MERCHANT_REFERENCE, MERCHANT_SIG, SHOPPER_LOCALE, SKIN_CODE >>

RedirectionOptionalFields == << MERCHANT_RETURN_DATA, PAYMENT_METHOD, PSP_REFERENCE >>

REQUIRED_FIELDS(cls) ==
    IF cls.kind = "PaymentRedirection" THEN RedirectionRequiredFields
    ELSE IF cls.kind = "PaymentFormRequest" THEN PaymentFormRequiredFields
    ELSE NotificationRequiredFields

OPTIONAL_FIELDS(cls) ==
    IF cls.kind = "PaymentRedirection" THEN RedirectionOptionalFields
    ELSE IF cls.kind = "PaymentFormRequest" THEN PaymentFormOptionalFields
    ELSE NotificationOptionalFields

\* Signed keys of the payment form that have the signature field among them.
PaymentFormHashKeysWithSignature ==
    << PAYMENT_AMOUNT, CURRENCY_CODE, SHIP_BEFORE_DATE, MERCHANT_REFERENCE, SKIN_CODE,
       MERCHANT_ACCOUNT, SESSION_VALIDITY, SHOPPER_EMAIL, SHOPPER_REFERENCE,
       RECURRING_CONTRACT, ALLOWED_METHODS, BLOCKED_METHODS, SHOPPER_STATEMENT,
       MERCHANT_RETURN_DATA, BILLING_ADDRESS_TYPE, DELIVERY_ADDRESS_TYPE,
       SHOPPER_TYPE, OFFSET, MERCHANT_SIG >>

PaymentFormHashKeys ==
    << PAYMENT_AMOUNT, CURRENCY_CODE, SHIP_BEFORE_DATE, MERCHANT_REFERENCE, SKIN_CODE,
       MERCHANT_ACCOUNT, SESSION_VALIDITY, SHOPPER_EMAIL, SHOPPER_REFERENCE,
       RECURRING_CONTRACT, ALLOWED_METHODS, BLOCKED_METHODS, SHOPPER_STATEMENT,
       MERCHANT_RETURN_DATA, BILLING_ADDRESS_TYPE, DELIVERY_ADDRESS_TYPE,
       SHOPPER_TYPE, OFFSET >>

\* Signed keys that leave merchantReturnData, the amount, out.
RedirectionSHA1HashKeysWithoutReturnData ==
    << AUTH_RESULT, PSP_REFERENCE, MERCHANT_REFERENCE, SKIN_CODE >>

RedirectionSHA1HashKeys ==
    << AUTH_RESULT, PSP_REFERENCE, MERCHANT_REFERENCE, SKIN_CODE, MERCHANT_RETURN_DATA >>

\* Signed keys of the SHA-256 redirect that leave shopperLocale and
\* paymentMethod out.
RedirectionSHA256HashKeysOfSHA1 ==
    << AUTH_RESULT, MERCHANT_REFERENCE, MERCHANT_RETURN_DATA, PSP_REFERENCE, SKIN_CODE >>

RedirectionSHA256HashKeys ==
    << AUTH_RESULT, MERCHANT_REFERENCE, MERCHANT_RETURN_DATA, PAYMENT_METHOD,
       PSP_REFERENCE, SHOPPER_LOCALE, SKIN_CODE >>

NotificationSHA256HashKeys ==
    << PSP_REFERENCE, ORIGINAL_REFERENCE, MERCHANT_ACCOUNT_CODE, MERCHANT_REFERENCE,
       VALUE, CURRENCY, EVENT_CODE, SUCCESS >>

HASH_KEYS(cls) ==
    IF cls.kind = "PaymentRedirection"
    THEN (IF cls.alg = "SHA1" THEN RedirectionSHA1HashKeys ELSE RedirectionSHA256HashKeys)
    ELSE IF cls.kind = "PaymentFormRequest" THEN PaymentFormHashKeys
    ELSE (IF cls.alg = "SHA1" THEN <<>> ELSE NotificationSHA256HashKeys)

\* BasePaymentRedirection.HASH_FIELD
HASH_FIELD == MERCHANT_SIG

----------------------------------------------------------------------------
(* gateway: signature string and hash                                      *)

\* [str(params.get(key, '')) for key in keys].  A value of a message is the
\* text str() gives for it: 123 and '123' are both <<"1", "2", "3">>.
SignedValues(keys, params) == [i \in DOMAIN keys |-> Get(params, keys[i], <<>>)]

\* The legacy signature string for every class.
ComputeSignatureOfValues(cls, keys, params) == Concat(SignedValues(keys, params))

\* BaseInteraction._compute_signature, overridden by PaymentRedirectionSHA256.
ComputeSignature(cls, keys, params) ==
    IF cls.kind = "PaymentRedirection" /\ cls.alg = "SHA256"
    THEN Join(SEPARATOR, keys \o SignedValues(keys, params))
    ELSE Concat(SignedValues(keys, params))

\* Gateway._compute_hash: base64(HMAC_alg(secret_key, signature)).  The keyed
\* hash is modelled as collision free: the digest is a string that determines,
\* and is determined by, the algorithm, the key and the signature string.
ComputeHash(hmac_algorithm, secret_key, signature) ==
    <<"b64-hmac(", hmac_algorithm, secret_key>> \o signature \o <<")">>

\* BaseInteraction.hash
Hash(cls, secret_key, params) ==
    ComputeHash(cls.alg, secret_key, ComputeSignature(cls, HASH_KEYS(cls), params))

----------------------------------------------------------------------------
(* gateway: validation                                                     *)

\* A working copy that keeps every key.
StripNothing(params) == params

\* A working copy without the signature of the notification, the one
\* additional field the PSP always sends.
StripHmacSignatureOnly(params) ==
    [k \in DOMAIN params \ {ADDITIONAL_DATA_PREFIX \o <<"hmacSignature">>} |-> params[k]]

\* A working copy without the additional data and without the open invoice
\* data.
StripVendorData(params) ==
    [k \in {key \in DOMAIN params : /\ ~Contains(key, ADDITIONAL_DATA_PREFIX)
                                     /\ ~Contains(key, <<"openinvoicedata.">>)}
        |-> params[k]]

\* BasePaymentNotification.check_fields, first statement: the working copy
\* keeps the keys that do not contain 'additionalData.'.
StripAdditionalData(params) ==
    [k \in {key \in DOMAIN params : ~Contains(key, ADDITIONAL_DATA_PREFIX)} |-> params[k]]

\* The response's params when check_fields starts checking.
WorkingParams(cls, params) ==
    IF cls.kind = "PaymentNotification" THEN StripAdditionalData(params) ELSE params

\* A check for absent fields only: an empty value counts as given.
AbsentPositions(required, params) ==
    {i \in DOMAIN required : required[i] \notin DOMAIN params}

\* The required fields that are absent or empty (`not params.get(name)`), as
\* positions of REQUIRED_FIELDS.
MissingPositions(required, params) ==
    {i \in DOMAIN required : Get(params, required[i], <<>>) = <<>>}

Min(S) == CHOOSE x \in S : \A y \in S : x <= y

\* BaseInteraction.check_fields on the working copy: "ok" or the exception.
CheckFields(required, optional, params) ==
    IF MissingPositions(required, params) # {}
    THEN [exc |-> "MissingFieldException",
          field |-> required[Min(MissingPositions(required, params))]]
    ELSE IF \E k \in DOMAIN params : k \notin Range(required \o optional)
    THEN [exc |-> "UnexpectedFieldException", field |-> <<>>]
    ELSE [exc |-> "ok", field |-> <<>>]

\* BasePaymentRedirection.validate, after super().validate(): the comparison
\* of the received with the expected hash.
SignatureRejected(cls, secret_key, params) ==
    LET received_hash == Get(params, HASH_FIELD, <<>>)
        expected_hash == Hash(cls, secret_key, params)
    IN  received_hash = <<>> \/ expected_hash # received_hash

\* BaseInteraction.validate alone: the fields are checked, the hash is not.
ValidateFieldsOnly(cls, secret_key, params) ==
    CheckFields(REQUIRED_FIELDS(cls), OPTIONAL_FIELDS(cls), WorkingParams(cls, params))

\* A validate() that compares the signature of a redirect before it checks
\* the fields.
ValidateSignatureFirst(cls, secret_key, params) ==
    LET working == WorkingParams(cls, params)
        checked == CheckFields(REQUIRED_FIELDS(cls), OPTIONAL_FIELDS(cls), working)
    IN  IF cls.kind = "PaymentRedirection" /\ SignatureRejected(cls, secret_key, working)
        THEN [exc |-> "InvalidTransactionException", field |-> <<>>]
        ELSE checked

\* response.validate() for the response class: "ok" or the exception raised.
Validate(cls, secret_key, params) ==
    LET working == WorkingParams(cls, params)
        checked == CheckFields(REQUIRED_FIELDS(cls), OPTIONAL_FIELDS(cls), working)
    IN  IF checked.exc # "ok" THEN checked
        ELSE IF cls.kind = "PaymentRedirection" /\ SignatureRejected(cls, secret_key, working)
        THEN [exc |-> "InvalidTransactionException", field |-> <<>>]
        ELSE checked

\* PaymentFormRequest(client, params) and build_form_fields(): validate(),
\* then the hash of the fields goes into merchantSig; the hidden form fields
\* are the params, one field per key.
PaymentFormRequest(hmac_algorithm, secret_key, params) ==
    LET cls == PaymentFormRequestClass(hmac_algorithm)
        checked == CheckFields(REQUIRED_FIELDS(cls), OPTIONAL_FIELDS(cls), params)
    IN  IF checked.exc # "ok"
        THEN [raised |-> checked.exc, field |-> checked.field, params |-> NoParams]
        ELSE [raised |-> "ok", field |-> <<>>,
              params |-> SetField(params, HASH_FIELD, Hash(cls, secret_key, params))]

----------------------------------------------------------------------------
(* gateway: outcome interpretation.  process() returns                     *)
(* (accepted, status, self.params).                                        *)

\* A processor that accepts whatever is not a known failure.
ProcessRedirectionByFailureCodes(params) ==
    LET payment_result == params[AUTH_RESULT]
    IN  [accepted |-> payment_result \notin { PAYMENT_RESULT_REFUSED,
                                              PAYMENT_RESULT_CANCELLED,
                                              PAYMENT_RESULT_ERROR },
         status   |-> payment_result,
         params   |-> params]

ProcessRedirection(params) ==
    LET payment_result == params[AUTH_RESULT]
    IN  [accepted |-> payment_result = PAYMENT_RESULT_AUTHORISED,
         status   |-> payment_result,
         params   |-> params]

ProcessNotification(params) ==
    LET accepted == Get(params, SUCCESS, <<>>) = TRUE_
    IN  [accepted |-> accepted,
         status   |-> IF accepted THEN PAYMENT_RESULT_AUTHORISED
                      ELSE PAYMENT_RESULT_REFUSED,
         params   |-> params]

Process(cls, params) ==
    IF cls.kind = "PaymentRedirection" THEN ProcessRedirection(params)
    ELSE ProcessNotification(params)

\* What the gateway's response object does with a message: validate(), then
\* process() (facade.process_payment_feedback, before anything is recorded).
\* `raised` is "ok" or the exception of validate().
ValidateAndProcess(cls, secret_key, params) ==
    LET validated == Validate(cls, secret_key, params)
        processed == Process(cls, WorkingParams(cls, params))
    IN  IF validated.exc # "ok"
        THEN [raised |-> validated.exc, field |-> validated.field,
              accepted |-> FALSE, status |-> <<>>, params |-> NoParams]
        ELSE [raised |-> "ok", field |-> <<>>,
              accepted |-> processed.accepted, status |-> processed.status,
              params |-> processed.params]

----------------------------------------------------------------------------
(* facade: unpacking the processor's field mapping                         *)

Digits == {"0", "1", "2", "3", "4", "5", "6", "7", "8", "9"}

DigitValue(d) ==
    CASE d = "0" -> 0 [] d = "1" -> 1 [] d = "2" -> 2 [] d = "3" -> 3 [] d = "4" -> 4
      [] d = "5" -> 5 [] d = "6" -> 6 [] d = "7" -> 7 [] d = "8" -> 8 [] d = "9" -> 9

\* Python int(str): an optional sign, then at least one decimal digit;
\* anything else raises ValueError.
Unsigned(s) == IF s # <<>> /\ Head(s) \in {"+", "-"} THEN Tail(s) ELSE s

IsIntLiteral(s) == Unsigned(s) # <<>> /\ \A i \in DOMAIN Unsigned(s) : Unsigned(s)[i] \in Digits

RECURSIVE DecimalValue(_)
DecimalValue(ds) ==
    IF ds = <<>> THEN 0
    ELSE 10 * DecimalValue(SubSeq(ds, 1, Len(ds) - 1)) + DigitValue(ds[Len(ds)])

IntOf(s) == IF Head(s) = "-" THEN 0 - DecimalValue(Unsigned(s)) ELSE DecimalValue(Unsigned(s))

\* Python's None / a value: << >> is None, <<v>> is the value v.
None == <<>>
Some(v) == <<v>>

\* Facade.unpack_details_amount: details.get(MERCHANT_RETURN_DATA, details.get(VALUE)),
\* then int() of it unless it is None.
UnpackDetailsAmount(details) ==
    LET value  == IF VALUE \in DOMAIN details THEN Some(details[VALUE]) ELSE None
        amount == IF MERCHANT_RETURN_DATA \in DOMAIN details
                  THEN Some(details[MERCHANT_RETURN_DATA]) ELSE value
    IN  IF amount = None THEN [raised |-> "none", amount |-> None]
        ELSE IF IsIntLiteral(amount[1])
        THEN [raised |-> "none", amount |-> Some(IntOf(amount[1]))]
        ELSE [raised |-> "ValueError", amount |-> None]

\* Facade.unpack_details with Facade.unpack_merchant_return_data merged in.
UnpackDetails(details) ==
    [order_number   |-> Get(details, MERCHANT_REFERENCE, <<>>),
     payment_method |-> Get(details, PAYMENT_METHOD, <<>>),
     psp_reference  |-> Get(details, PSP_REFERENCE, <<>>),
     amount         |-> UnpackDetailsAmount(details).amount,
     merchant_return_data |->
         IF MERCHANT_RETURN_DATA \in DOMAIN details
         THEN Some(details[MERCHANT_RETURN_DATA]) ELSE None]

----------------------------------------------------------------------------
(* facade: the origin IP address.  request.ip is the value of the          *)
(* configured META header, << >> when the header is absent.                *)

ValidIpAddresses == {<<"127.0.0.1">>, <<"93.16.93.168">>}

\* Facade._is_valid_ip_address
IsValidIpAddress(s) == s \in ValidIpAddresses

\* Facade._get_origin_ip_address: None when the header is absent or invalid.
GetOriginIpAddress(request) ==
    IF request.ip = <<>> THEN None
    ELSE IF ~IsValidIpAddress(request.ip) THEN None
    ELSE Some(request.ip)

----------------------------------------------------------------------------
(* models.AdyenTransaction and the audit trail                             *)
(* The table is a bag of rows: no column is unique, and the program reads  *)
(* it only through filter(reference=...).exists().  currency and           *)
(* date_created take their defaults and are never read; they are left out. *)

AdyenTransaction(txn_details, status, ip_address) ==
    [order_number |-> txn_details.order_number,
     reference    |-> txn_details.psp_reference,
     method       |-> txn_details.payment_method,
     status       |-> status,
     amount       |-> txn_details.amount,
     ip_address   |-> ip_address]

\* A create under a unique constraint on reference, the violation swallowed.
CreateUniqueReference(table, row) ==
    IF \E other \in BagToSet(table) : other.reference = row.reference THEN table
    ELSE table (+) SetToBag({row})

\* AdyenTransaction.objects.create(...): one more row, whatever the table holds.
Create(table, row) == table (+) SetToBag({row})

\* A lookup that filters on the wrong column.
ReferenceExistsByOrderNumber(table, reference) ==
    \E row \in BagToSet(table) : row.order_number = reference

\* AdyenTransaction.objects.filter(reference=reference).exists()
ReferenceExists(table, reference) ==
    \E row \in BagToSet(table) : row.reference = reference

\* An audit trail that keeps the authorised payments only.
RecordAuditTrailOfAuthorised(table, request, status, txn_details, db_ok) ==
    IF ~db_ok \/ status # PAYMENT_RESULT_AUTHORISED THEN table
    ELSE Create(table, AdyenTransaction(txn_details, status,
                    IF request.method = "POST" THEN None
                    ELSE GetOriginIpAddress(request)))

\* An audit trail that keeps one record per PSP reference.
RecordAuditTrailOfNewReferences(table, request, status, txn_details, db_ok) ==
    IF ~db_ok \/ ReferenceExists(table, txn_details.psp_reference) THEN table
    ELSE IF request.method = "POST"
    THEN Create(table, AdyenTransaction(txn_details, status, None))
    ELSE Create(table, AdyenTransaction(txn_details, status, GetOriginIpAddress(request)))

\* An audit trail whose insert is not lost when objects.create fails.
RecordAuditTrailWhateverHappens(table, request, status, txn_details, db_ok) ==
    IF request.method = "POST"
    THEN Create(table, AdyenTransaction(txn_details, status, None))
    ELSE Create(table, AdyenTransaction(txn_details, status, GetOriginIpAddress(request)))

\* Facade._record_audit_trail.  db_ok is whether objects.create succeeds; on
\* any exception the method logs and returns.  For a GET request the row then
\* gets the origin IP address when there is one (txn_log.save()).
RecordAuditTrail(table, request, status, txn_details, db_ok) ==
    IF ~db_ok THEN table
    ELSE IF request.method = "POST"
    THEN Create(table, AdyenTransaction(txn_details, status, None))
    ELSE Create(table, AdyenTransaction(txn_details, status, GetOriginIpAddress(request)))

----------------------------------------------------------------------------
(* facade: process_payment_feedback                                        *)

\* What a facade call returned or raised.  `raised` is "none" or the
\* exception's name; the other fields are meaningful when it is "none".
NoOutcome ==
    [raised |-> "none", field |-> <<>>,
     must_process |-> FALSE, must_acknowledge |-> FALSE,
     success |-> FALSE, status |-> <<>>, details |-> NoParams,
     txn |-> UnpackDetails(NoParams), ip_address |-> None]

Raise(exc, field) == [NoOutcome EXCEPT !.raised = exc, !.field = field]

\* A process_payment_feedback that checks the fields, records the audit
\* trail, and only then compares the signature.
ProcessPaymentFeedbackRecordingFirst(cfg, table, request, db_ok) ==
    LET cls       == ResponseClass(request.method, cfg.hmac_algorithm)
        working   == WorkingParams(cls, request.params)
        checked   == CheckFields(REQUIRED_FIELDS(cls), OPTIONAL_FIELDS(cls), working)
        validated == Validate(cls, cfg.secret_key, request.params)
        processed == Process(cls, working)
        unpacked  == UnpackDetailsAmount(processed.params)
        details   == UnpackDetails(processed.params)
        recorded  == RecordAuditTrail(table, request, processed.status, details, db_ok)
    IN  IF checked.exc # "ok"
        THEN [outcome |-> Raise(checked.exc, checked.field), table |-> table]
        ELSE IF unpacked.raised # "none"
        THEN [outcome |-> Raise(unpacked.raised, <<>>), table |-> table]
        ELSE IF validated.exc # "ok"
        THEN [outcome |-> Raise(validated.exc, validated.field), table |-> recorded]
        ELSE [outcome |->
                [NoOutcome EXCEPT !.success = processed.accepted,
                                  !.status = processed.status,
                                  !.details = processed.params,
                                  !.txn = details,
                                  !.ip_address = GetOriginIpAddress(request)],
              table |-> recorded]

\* Facade.process_payment_feedback(request, response) with the response
\* built by build_payment_return / build_payment_notification for the
\* request's method: validate, process, unpack, record, return.
ProcessPaymentFeedback(cfg, table, request, db_ok) ==
    LET cls       == ResponseClass(request.method, cfg.hmac_algorithm)
        validated == Validate(cls, cfg.secret_key, request.params)
        processed == Process(cls, WorkingParams(cls, request.params))
        unpacked  == UnpackDetailsAmount(processed.params)
        details   == UnpackDetails(processed.params)
    IN  IF validated.exc # "ok"
        THEN [outcome |-> Raise(validated.exc, validated.field), table |-> table]
        ELSE IF unpacked.raised # "none"
        THEN [outcome |-> Raise(unpacked.raised, <<>>), table |-> table]
        ELSE [outcome |->
                [NoOutcome EXCEPT !.success = processed.accepted,
                                  !.status = processed.status,
                                  !.details = processed.params,
                                  !.txn = details,
                                  !.ip_address = GetOriginIpAddress(request)],
              table |-> RecordAuditTrail(table, request, processed.status, details, db_ok)]

----------------------------------------------------------------------------
(* scaffold: the feedback of the facade, normalized                        *)

PAYMENT_STATUS_ACCEPTED == <<"ACCEPTED">>
PAYMENT_STATUS_CANCELLED == <<"CANCELLED">>
PAYMENT_STATUS_REFUSED == <<"REFUSED">>
PAYMENT_STATUS_ERROR == <<"ERROR">>
PAYMENT_STATUS_PENDING == <<"PENDING">>

\* A mapping that hands the PSP's statuses on as they are.
AdyenStatusesAsTheyAre ==
    [status \in { PAYMENT_RESULT_AUTHORISED, PAYMENT_RESULT_CANCELLED,
                  PAYMENT_RESULT_REFUSED, PAYMENT_RESULT_ERROR,
                  PAYMENT_RESULT_PENDING } |-> status]

ADYEN_TO_COMMON_PAYMENT_STATUSES ==
    (PAYMENT_RESULT_AUTHORISED :> PAYMENT_STATUS_ACCEPTED)
    @@ (PAYMENT_RESULT_CANCELLED :> PAYMENT_STATUS_CANCELLED)
    @@ (PAYMENT_RESULT_REFUSED :> PAYMENT_STATUS_REFUSED)
    @@ (PAYMENT_RESULT_ERROR :> PAYMENT_STATUS_ERROR)
    @@ (PAYMENT_RESULT_PENDING :> PAYMENT_STATUS_PENDING)

\* Scaffold._normalize_feedback: the status is looked up in the mapping; a
\* status that is not a key of it raises KeyError.
NormalizeFeedback(outcome) ==
    IF outcome.raised # "none" THEN outcome
    ELSE IF outcome.status \notin DOMAIN ADYEN_TO_COMMON_PAYMENT_STATUSES
    THEN Raise("KeyError", outcome.status)
    ELSE [outcome EXCEPT !.status = ADYEN_TO_COMMON_PAYMENT_STATUSES[outcome.status]]

\* Scaffold.handle_payment_return(request) and
\* Scaffold.handle_payment_notification(request): the facade's handler for
\* the request's method, then the normalization of what it returned.
ScaffoldHandlePayment(cfg, table, request, db_ok) ==
    LET done == ProcessPaymentFeedback(cfg, table, request, db_ok)
    IN  [outcome |-> NormalizeFeedback(done.outcome), table |-> done.table]

----------------------------------------------------------------------------
(* facade: assess_notification_relevance                                   *)

Platform(is_live) == IF is_live THEN LIVE ELSE TEST

Relevance(must_process, must_acknowledge) ==
    [NoOutcome EXCEPT !.must_process = must_process,
                      !.must_acknowledge = must_acknowledge]

\* An assessment without the test-notification step.
AssessNotificationRelevanceOfTests(cfg, table, request) ==
    LET post == request.params
        current_platform == Platform(Contains(cfg.action_url, LIVE))
        origin_platform  == Platform(Get(post, LIVE, <<>>) = TRUE_)
    IN  IF request.method # "POST" THEN Relevance(FALSE, FALSE)
        ELSE IF current_platform # origin_platform THEN Relevance(FALSE, FALSE)
        ELSE IF Get(post, EVENT_CODE, <<>>) # EVENT_CODE_AUTHORISATION
        THEN Relevance(FALSE, TRUE)
        ELSE IF PSP_REFERENCE \notin DOMAIN post THEN Raise("KeyError", PSP_REFERENCE)
        ELSE IF ReferenceExists(table, post[PSP_REFERENCE]) THEN Relevance(FALSE, TRUE)
        ELSE Relevance(TRUE, TRUE)

\* An assessment that looks for the test marker before it compares platforms.
AssessNotificationRelevanceTestsFirst(cfg, table, request) ==
    LET post == request.params
        current_platform == Platform(Contains(cfg.action_url, LIVE))
        origin_platform  == Platform(Get(post, LIVE, <<>>) = TRUE_)
    IN  IF request.method # "POST" THEN Relevance(FALSE, FALSE)
        ELSE IF Contains(Get(post, PSP_REFERENCE, <<>>), TEST_REFERENCE_PREFIX)
        THEN Relevance(FALSE, TRUE)
        ELSE IF current_platform # origin_platform THEN Relevance(FALSE, FALSE)
        ELSE IF Get(post, EVENT_CODE, <<>>) # EVENT_CODE_AUTHORISATION
        THEN Relevance(FALSE, TRUE)
        ELSE IF PSP_REFERENCE \notin DOMAIN post THEN Raise("KeyError", PSP_REFERENCE)
        ELSE IF ReferenceExists(table, post[PSP_REFERENCE]) THEN Relevance(FALSE, TRUE)
        ELSE Relevance(TRUE, TRUE)

\* request.POST is the request's params for a POST request.
AssessNotificationRelevance(cfg, table, request) ==
    LET post == request.params
        current_platform == Platform(Contains(cfg.action_url, LIVE))
        origin_platform  == Platform(Get(post, LIVE, <<>>) = TRUE_)
    IN  IF request.method # "POST" THEN Relevance(FALSE, FALSE)
        ELSE IF current_platform # origin_platform THEN Relevance(FALSE, FALSE)
        ELSE IF Get(post, EVENT_CODE, <<>>) # EVENT_CODE_AUTHORISATION
        THEN Relevance(FALSE, TRUE)
        ELSE IF PSP_REFERENCE \notin DOMAIN post THEN Raise("KeyError", PSP_REFERENCE)
        ELSE IF Contains(post[PSP_REFERENCE], TEST_REFERENCE_PREFIX)
        THEN Relevance(FALSE, TRUE)
        ELSE IF ReferenceExists(table, post[PSP_REFERENCE]) THEN Relevance(FALSE, TRUE)
        ELSE Relevance(TRUE, TRUE)

----------------------------------------------------------------------------
(* Configuration (settings_config.FromSettingsConfig, Gateway.__init__)    *)

TestActionUrl == <<"https://", "test", ".adyen.com/hpp/select.shtml">>
LiveActionUrl == <<"https://", "live", ".adyen.com/hpp/select.shtml">>

Configs ==
    [identifier     : {<<"OscaroFR">>},
     secret_key     : {"oscaroscaroscaro"},
     action_url     : {TestActionUrl, LiveActionUrl},
     hmac_algorithm : HmacAlgorithms]

----------------------------------------------------------------------------
(* Inbound requests: the test fixtures and single-field changes of them    *)

Request(method, params, ip) == [method |-> method, params |-> params, ip |-> ip]

NoRequest == Request("none", NoParams, <<>>)

P1 == <<"8814136447235922">>
P2 == <<"7914120802434172">>
TestReference == TEST_REFERENCE_PREFIX \o <<"_5">>
UNKNOWN_FIELD == <<"UNKNOWN_FIELD">>
ADDITIONAL_FOO == ADDITIONAL_DATA_PREFIX \o <<"foo">>
HMAC_SIGNATURE == ADDITIONAL_DATA_PREFIX \o <<"hmacSignature">>
ADDITIONAL_CARD_BIN == ADDITIONAL_DATA_PREFIX \o <<"cardBin">>
\* adyen/constants.py INVOICE_NUMLINES
INVOICE_NUMLINES == <<"openinvoicedata.", "numberOfLines">>

\* A change of one field of a message: set it to a value, or delete it.
Put(key, value) == [key |-> key, del |-> FALSE, value |-> value]
Drop(key) == [key |-> key, del |-> TRUE, value |-> <<>>]
Apply(params, edit) ==
    IF edit.del THEN DelField(params, edit.key)
    ELSE SetField(params, edit.key, edit.value)

\* tests/test_notifications.py AUTHORISED_PAYMENT_PARAMS_POST
NotificationParams(reference, live) ==
    (CURRENCY :> <<"EUR">>) @@ (EVENT_CODE :> EVENT_CODE_AUTHORISATION)
    @@ (LIVE :> live) @@ (EVENT_DATE :> <<"2014-10-18T17:00:00.00Z">>)
    @@ (MERCHANT_ACCOUNT_CODE :> <<"OscaroBE">>)
    @@ (MERCHANT_REFERENCE :> <<"789:456:00000000123">>)
    @@ (OPERATIONS :> <<"CANCEL,CAPTURE,REFUND">>) @@ (ORIGINAL_REFERENCE :> <<>>)
    @@ (PAYMENT_METHOD :> <<"visa">>) @@ (PSP_REFERENCE :> reference)
    @@ (REASON :> <<"32853:1111:6/2016">>) @@ (SUCCESS :> TRUE_)
    @@ (VALUE :> <<"2", "1">>)

\* tests/test_redirects.py AUTHORISED_, CANCELLED_ and REFUSED_PAYMENT_PARAMS,
\* without the signature.
RedirectionFields(auth_result, reference, return_data) ==
    [k \in {PSP_REFERENCE, PAYMENT_METHOD} \cap
           (IF reference = None THEN {} ELSE {PSP_REFERENCE, PAYMENT_METHOD})
        |-> IF k = PSP_REFERENCE THEN reference[1] ELSE <<"visa">>]
    @@ [k \in (IF return_data = None THEN {} ELSE {MERCHANT_RETURN_DATA})
        |-> return_data[1]]
    @@ (AUTH_RESULT :> auth_result)
    @@ (MERCHANT_REFERENCE :> <<"WVubjVRFOTPBsLNy33zqliF-vmc:109:00000109">>)
    @@ (SHOPPER_LOCALE :> <<"en_GB">>) @@ (SKIN_CODE :> <<"4d72uQqA">>)

\* The redirect as the PSP issues it: the fields and, in merchantSig, the
\* signature computed over them with the shared secret.
Signed(cfg, fields) ==
    SetField(fields, MERCHANT_SIG,
             Hash(ResponseClass("GET", cfg.hmac_algorithm), cfg.secret_key, fields))

----------------------------------------------------------------------------
(* The requests the facade is called with                                  *)

MaxStore == 2

NotificationEdits ==
    { Put(SUCCESS, FALSE_),
      Put(EVENT_CODE, <<"REPORT_AVAILABLE">>),
      Put(PSP_REFERENCE, P2),
      Put(PSP_REFERENCE, TestReference),
      Drop(PSP_REFERENCE),
      Put(VALUE, <<"x">>),
      Put(ADDITIONAL_FOO, <<"FOO">>),
      Put(UNKNOWN_FIELD, <<"foo">>) }

Notifications ==
    LET bases == {NotificationParams(P1, live) : live \in {TRUE_, FALSE_}}
    IN  bases \cup {Apply(m, e) : m \in bases, e \in NotificationEdits}

RedirectionEdits ==
    { Put(MERCHANT_SIG, <<"14M4N3V1LH4X0RZ">>),
      Drop(MERCHANT_SIG),
      Put(AUTH_RESULT, PAYMENT_RESULT_AUTHORISED),
      Put(UNKNOWN_FIELD, <<"foo">>),
      Drop(SKIN_CODE) }

AuthorisedRedirection(cfg) ==
    Signed(cfg, RedirectionFields(PAYMENT_RESULT_AUTHORISED, Some(P1), Some(<<"1", "3">>)))

IssuedRedirections(cfg) ==
    { AuthorisedRedirection(cfg),
      Signed(cfg, RedirectionFields(PAYMENT_RESULT_CANCELLED, None, Some(<<"1", "3">>))),
      Signed(cfg, RedirectionFields(PAYMENT_RESULT_REFUSED, Some(P2), None)) }

Redirections(cfg) ==
    IssuedRedirections(cfg)
    \cup {Apply(m, e) : m \in IssuedRedirections(cfg), e \in RedirectionEdits}

PostRequests == {Request("POST", m, <<"93.16.93.168">>) : m \in Notifications}

GetRequestsOf(cfg) ==
    {Request("GET", m, <<"127.0.0.1">>) : m \in Redirections(cfg)}
    \cup {Request("GET", AuthorisedRedirection(cfg), ip) : ip \in {<<>>, <<"not-an-ip">>}}

\* The GET requests per configuration, tabulated once.
GetRequestTable == [cfg \in Configs |-> GetRequestsOf(cfg)]

GetRequests(cfg) == GetRequestTable[cfg]

\* Test notifications (tests/test_notifications.py test_test_notification)
\* for either platform, with either event code and success flag.
TestNotifications ==
    { SetField(SetField(NotificationParams(TestReference, live), EVENT_CODE, event_code),
               SUCCESS, success) :
        live \in {TRUE_, FALSE_},
        event_code \in {EVENT_CODE_AUTHORISATION, <<"REPORT_AVAILABLE">>},
        success \in {TRUE_, FALSE_} }

\* assess_notification_relevance looks at a GET request's method only.
AssessedRequests(cfg) ==
    PostRequests
    \cup {Request("POST", m, <<"93.16.93.168">>) : m \in TestNotifications}
    \cup {Request("GET", AuthorisedRedirection(cfg), <<"127.0.0.1">>)}

----------------------------------------------------------------------------
(* Spec: the facade called with one request after another                  *)

\* Where a request comes from: the message the PSP issued and the fields
\* changed on the way.  Recorded for the requests of SpecMsg.
NoOrigin == [issued |-> NoParams, edits |-> {}]

NoCall ==
    [op |-> "none", request |-> NoRequest, origin |-> NoOrigin, db_ok |-> TRUE,
     before |-> EmptyBag, outcome |-> NoOutcome]

Idle ==
    [pc |-> "idle", request |-> NoRequest, relevance |-> NoOutcome,
     db_ok |-> TRUE, outcome |-> NoOutcome]

MaxDeliveries == 2

Init ==
    /\ config \in Configs
    /\ store = EmptyBag
    /\ last = NoCall
    /\ deliveries = [d \in 1..MaxDeliveries |-> Idle]

\* An assessment that stores a record of the reference it has seen.
AssessNotificationRecording(request) ==
    LET outcome == AssessNotificationRelevance(config, store, request)
    IN  /\ last' = [op |-> "assess_notification_relevance", request |-> request,
                    origin |-> NoOrigin, db_ok |-> TRUE, before |-> store,
                    outcome |-> outcome]
        /\ store' = IF outcome.raised = "none" /\ outcome.must_process
                        /\ BagCardinality(store) < MaxStore
                     THEN Create(store, AdyenTransaction(UnpackDetails(request.params),
                                                         <<>>, None))
                     ELSE store
        /\ UNCHANGED <<config, deliveries>>

\* Facade.assess_notification_relevance(request)
AssessNotification(request) ==
    /\ last' = [op |-> "assess_notification_relevance", request |-> request,
                origin |-> NoOrigin, db_ok |-> TRUE, before |-> store,
                outcome |-> AssessNotificationRelevance(config, store, request)]
    /\ UNCHANGED <<config, store, deliveries>>

\* Facade.handle_payment_return(request) for a GET request and
\* Facade.handle_payment_notification(request) for a POST request.
HandlePayment(op, request, db_ok) ==
    LET done == ProcessPaymentFeedback(config, store, request, db_ok)
    IN  /\ BagCardinality(store) < MaxStore
        /\ last' = [op |-> op, request |-> request, origin |-> NoOrigin,
                    db_ok |-> db_ok, before |-> store, outcome |-> done.outcome]
        /\ store' = done.table
        /\ UNCHANGED <<config, deliveries>>

HandlePaymentReturn(request, db_ok) ==
    HandlePayment("handle_payment_return", request, db_ok)

HandlePaymentNotification(request, db_ok) ==
    HandlePayment("handle_payment_notification", request, db_ok)

Next ==
    \/ \E request \in AssessedRequests(config) : AssessNotification(request)
    \/ \E request \in GetRequests(config), db_ok \in BOOLEAN :
           HandlePaymentReturn(request, db_ok)
    \/ \E request \in PostRequests, db_ok \in BOOLEAN :
           HandlePaymentNotification(request, db_ok)

Spec == Init /\ [][Next]_vars

----------------------------------------------------------------------------
(* SpecMsg: one message through the gateway's response object.             *)
(* The message is an issued one with at most MaxEdits fields changed.      *)

MaxEdits == 2

RECURSIVE EditSets(_, _)
EditSets(edits, n) ==
    IF n = 0 THEN {{}}
    ELSE LET smaller == EditSets(edits, n - 1)
         IN  smaller \cup
             UNION {{S \cup {e} : e \in {x \in edits : \A y \in S : y.key # x.key}} :
                    S \in smaller}

\* The edits of a set change different fields, so the order is irrelevant.
RECURSIVE ApplyAll(_, _)
ApplyAll(params, edits) ==
    IF edits = {} THEN params
    ELSE LET e == CHOOSE x \in edits : TRUE
         IN  ApplyAll(Apply(params, e), edits \ {e})

RedirectionKeys ==
    { AUTH_RESULT, MERCHANT_REFERENCE, MERCHANT_SIG, SHOPPER_LOCALE, SKIN_CODE,
      MERCHANT_RETURN_DATA, PAYMENT_METHOD, PSP_REFERENCE }

AllRedirectionEdits ==
    {Drop(k) : k \in RedirectionKeys}
    \cup {Put(k, <<>>) : k \in RedirectionKeys}
    \cup {Put(k, <<"zz">>) :
            k \in {MERCHANT_REFERENCE, SHOPPER_LOCALE, SKIN_CODE, PAYMENT_METHOD}}
    \cup { Put(AUTH_RESULT, PAYMENT_RESULT_AUTHORISED),
           Put(AUTH_RESULT, PAYMENT_RESULT_REFUSED),
           Put(MERCHANT_RETURN_DATA, <<"9", "9">>),
           Put(PSP_REFERENCE, P2),
           Put(MERCHANT_SIG, <<"14M4N3V1LH4X0RZ">>),
           Put(UNKNOWN_FIELD, <<"foo">>) }

AuthResults ==
    { PAYMENT_RESULT_AUTHORISED, PAYMENT_RESULT_REFUSED, PAYMENT_RESULT_CANCELLED,
      PAYMENT_RESULT_PENDING, PAYMENT_RESULT_ERROR, <<"FOO">> }

AllIssuedRedirections(cfg) ==
    {Signed(cfg, RedirectionFields(ar, Some(P1), Some(<<"1", "3">>))) : ar \in AuthResults}
    \cup {Signed(cfg, RedirectionFields(ar, None, None)) : ar \in AuthResults}

AllNotificationEdits ==
    { Put(SUCCESS, FALSE_), Put(SUCCESS, <<"True">>), Put(SUCCESS, <<>>), Drop(SUCCESS),
      Put(VALUE, <<"x">>), Drop(VALUE), Drop(ORIGINAL_REFERENCE),
      Put(ADDITIONAL_FOO, <<"FOO">>),
      Put(HMAC_SIGNATURE, <<"coqCmt/IZ4E3CzPvMY8zTjQVL5hYJUiBRg8UU+iCWo0=">>),
      Put(HMAC_SIGNATURE, <<"14M4N3V1LH4X0RZ">>),
      Put(<<"x.", "additionalData.", "foo">>, <<"FOO">>),
      Put(ADDITIONAL_CARD_BIN, <<"4", "1", "1", "1">>),
      Put(INVOICE_NUMLINES, <<"1">>),
      Put(MERCHANT_SIG, <<"14M4N3V1LH4X0RZ">>),
      Put(UNKNOWN_FIELD, <<"foo">>) }
    \cup {Drop(k) : k \in Range(NotificationRequiredFields)}
    \cup {Put(k, <<>>) : k \in Range(NotificationRequiredFields)}

\* tests/test_requests.py: the field specs behind EXPECTED_FIELDS_LIST, before
\* merchantSig is added.
PaymentFormParams ==
    (CURRENCY_CODE :> <<"EUR">>) @@ (MERCHANT_ACCOUNT :> <<"OscaroFR">>)
    @@ (MERCHANT_REFERENCE :> <<"00000000123">>)
    @@ (MERCHANT_RETURN_DATA :> <<"1", "2", "3">>)
    @@ (PAYMENT_AMOUNT :> <<"1", "2", "3">>)
    @@ (MERCHANT_RETURN_URL :> <<"https://www.example.com/checkout/return/adyen/">>)
    @@ (SESSION_VALIDITY :> <<"2014-07-31T17:20:00Z">>)
    @@ (SHIP_BEFORE_DATE :> <<"2014-08-30">>)
    @@ (SHOPPER_EMAIL :> <<"test@example.com">>) @@ (SHOPPER_LOCALE :> <<"fr">>)
    @@ (SHOPPER_REFERENCE :> <<"7", "8", "9">>) @@ (SKIN_CODE :> <<"cqQJKZpg">>)
    @@ (COUNTRY_CODE :> <<"fr">>)

AllPaymentFormEdits ==
    {Drop(k) : k \in Range(PaymentFormRequiredFields)}
    \cup {Put(k, <<>>) : k \in Range(PaymentFormRequiredFields)}
    \cup { Drop(SKIN_CODE), Put(SHOPPER_TYPE, <<"2">>),
           Put(MERCHANT_SIG, <<"14M4N3V1LH4X0RZ">>),
           Put(<<"shopper.", "firstName">>, <<"John">>),
           Put(UNKNOWN_FIELD, <<"foo">>) }

\* The inputs of SpecMsg: method, issued message, changed fields.  "FORM" is
\* a call of build_payment_form_fields with the message as its params.
MessagesOf(cfg) ==
    {[method |-> "GET", issued |-> m, edits |-> es] :
        m \in AllIssuedRedirections(cfg), es \in EditSets(AllRedirectionEdits, MaxEdits)}
    \cup {[method |-> "POST", issued |-> NotificationParams(P1, FALSE_), edits |-> es] :
        es \in EditSets(AllNotificationEdits, MaxEdits)}
    \cup {[method |-> "FORM", issued |-> PaymentFormParams, edits |-> es] :
        es \in EditSets(AllPaymentFormEdits, MaxEdits)}

Received(msg) ==
    [op |-> "received",
     request |-> Request(msg.method, ApplyAll(msg.issued, msg.edits), <<"127.0.0.1">>),
     origin |-> [issued |-> msg.issued, edits |-> msg.edits],
     db_ok |-> TRUE, before |-> EmptyBag, outcome |-> NoOutcome]

InitMsg ==
    /\ config \in {cfg \in Configs : cfg.action_url = TestActionUrl}
    /\ store = EmptyBag
    /\ deliveries = [d \in 1..MaxDeliveries |-> Idle]
    /\ \E msg \in MessagesOf(config) : last = Received(msg)

\* Gateway.get_response() for the request's method, then validate() and
\* process() on it.
GetResponse(method) ==
    LET cls  == ResponseClass(method, config.hmac_algorithm)
        done == ValidateAndProcess(cls, config.secret_key, last.request.params)
    IN  /\ last.op = "received"
        /\ last.request.method = method
        /\ last' = [last EXCEPT
                      !.op = "process",
                      !.outcome = [NoOutcome EXCEPT
                                     !.raised = IF done.raised = "ok" THEN "none"
                                                ELSE done.raised,
                                     !.field = done.field,
                                     !.success = done.accepted,
                                     !.status = done.status,
                                     !.details = done.params]]
        /\ UNCHANGED <<config, store, deliveries>>

ProcessRedirectionResponse == GetResponse("GET")

ProcessNotificationResponse == GetResponse("POST")

\* Gateway.build_payment_form_fields(params): the outcome's details are the
\* fields of the form.
BuildPaymentFormFields ==
    LET done == PaymentFormRequest(config.hmac_algorithm, config.secret_key,
                                   last.request.params)
    IN  /\ last.op = "received"
        /\ last.request.method = "FORM"
        /\ last' = [last EXCEPT
                      !.op = "build_payment_form_fields",
                      !.outcome = [NoOutcome EXCEPT
                                     !.raised = IF done.raised = "ok" THEN "none"
                                                ELSE done.raised,
                                     !.field = done.field,
                                     !.details = done.params]]
        /\ UNCHANGED <<config, store, deliveries>>

\* Scaffold.handle_payment_feedback(request): handle_payment_notification
\* for a POST request, handle_payment_return for any other.
ScaffoldHandlePaymentFeedback(db_ok) ==
    LET done == ScaffoldHandlePayment(config, store, last.request, db_ok)
    IN  /\ last.op = "received"
        /\ last.request.method \in {"GET", "POST"}
        /\ last' = [last EXCEPT !.op = "handle_payment_feedback", !.db_ok = db_ok,
                                !.before = store, !.outcome = done.outcome]
        /\ store' = done.table
        /\ UNCHANGED <<config, deliveries>>

NextMsg ==
    \/ ProcessRedirectionResponse
    \/ ProcessNotificationResponse
    \/ BuildPaymentFormFields
    \/ \E db_ok \in BOOLEAN : ScaffoldHandlePaymentFeedback(db_ok)

SpecMsg == InitMsg /\ [][NextMsg]_vars

----------------------------------------------------------------------------
(* SpecRace: deliveries of notifications handled concurrently.  Each       *)
(* delivery is first assessed, then processed when the assessment says so  *)
(* and acknowledged when it does not; the steps of different deliveries    *)
(* interleave.                                                             *)

RaceRequests ==
    {Request("POST", NotificationParams(reference, live), <<"127.0.0.1">>) :
        reference \in {P1, P2}, live \in {TRUE_, FALSE_}}

InitRace ==
    /\ config \in Configs
    /\ store = EmptyBag
    /\ last = NoCall
    /\ deliveries = [d \in 1..MaxDeliveries |-> Idle]

\* Scaffold.assess_notification_relevance on an incoming delivery.
DeliveryAssess(d, request) ==
    /\ deliveries[d].pc = "idle"
    /\ deliveries' = [deliveries EXCEPT
                        ![d] = [Idle EXCEPT
                                  !.pc = "assessed",
                                  !.request = request,
                                  !.relevance =
                                      AssessNotificationRelevance(config, store, request)]]
    /\ UNCHANGED <<config, store, last>>

\* Scaffold.handle_payment_notification, called when must_process is true.
DeliveryProcess(d, db_ok) ==
    LET done == ProcessPaymentFeedback(config, store, deliveries[d].request, db_ok)
    IN  /\ deliveries[d].pc = "assessed"
        /\ deliveries[d].relevance.raised = "none"
        /\ deliveries[d].relevance.must_process
        /\ deliveries' = [deliveries EXCEPT
                            ![d] = [@ EXCEPT !.pc = "processed",
                                             !.db_ok = db_ok,
                                             !.outcome = done.outcome]]
        /\ store' = done.table
        /\ UNCHANGED <<config, last>>

\* Scaffold.build_notification_response for a delivery that is not processed.
DeliveryAcknowledge(d) ==
    /\ deliveries[d].pc = "assessed"
    /\ deliveries[d].relevance.raised = "none"
    /\ ~deliveries[d].relevance.must_process
    /\ deliveries' = [deliveries EXCEPT ![d] = [@ EXCEPT !.pc = "acknowledged"]]
    /\ UNCHANGED <<config, store, last>>

NextRace ==
    \/ \E d \in 1..MaxDeliveries, request \in RaceRequests : DeliveryAssess(d, request)
    \/ \E d \in 1..MaxDeliveries, db_ok \in BOOLEAN : DeliveryProcess(d, db_ok)
    \/ \E d \in 1..MaxDeliveries : DeliveryAcknowledge(d)

SpecRace == InitRace /\ [][NextRace]_vars

----------------------------------------------------------------------------
(* Properties of the facade calls (Spec).  `last` holds the latest call:   *)
(* its request, the store before it, and what it returned or raised.       *)

Handled == last.op \in {"handle_payment_return", "handle_payment_notification"}

ValidationExceptions ==
    {"MissingFieldException", "UnexpectedFieldException", "InvalidTransactionException"}

\* A notification for this platform with eventCode AUTHORISATION and a
\* PSP reference.
IsAuthorisationForPlatform(request) ==
    /\ request.method = "POST"
    /\ Contains(config.action_url, LIVE) <=> (Get(request.params, LIVE, <<>>) = TRUE_)
    /\ Get(request.params, EVENT_CODE, <<>>) = EVENT_CODE_AUTHORISATION
    /\ PSP_REFERENCE \in DOMAIN request.params

HasRecordOf(table, request) ==
    \E row \in BagToSet(table) : row.reference = request.params[PSP_REFERENCE]

\* C1: once a notification with PSP reference P has been processed and its
\* record stored, every later assess_notification_relevance of the identical
\* notification (POST, matching platform, eventCode AUTHORISATION, reference P)
\* returns (False, True).  In every state: no call removes a record; a
\* notification just processed and recorded has a record of its reference in
\* the store; whenever the store has a record of a notification's reference,
\* assessing that notification gives (False, True); and so did the latest
\* assessment if the store had such a record.
C1_RecordedNotificationIsNotProcessedAgain ==
    /\ \A row \in BagToSet(last.before) : CopiesIn(row, store) >= CopiesIn(row, last.before)
    /\ ( /\ last.op = "handle_payment_notification"
         /\ last.outcome.raised = "none"
         /\ last.db_ok )
       => HasRecordOf(store, last.request)
    /\ \A request \in PostRequests :
          (IsAuthorisationForPlatform(request) /\ HasRecordOf(store, request))
          => AssessNotificationRelevance(config, store, request) = Relevance(FALSE, TRUE)
    /\ ( /\ last.op = "assess_notification_relevance"
         /\ IsAuthorisationForPlatform(last.request)
         /\ HasRecordOf(last.before, last.request) )
       => last.outcome = Relevance(FALSE, TRUE)

\* The record of the notification itself is in the store when the identical
\* notification is assessed, and the assessment is (False, True).
C1_Witness ==
    /\ last.op = "assess_notification_relevance"
    /\ IsAuthorisationForPlatform(last.request)
    /\ last.request.params[PSP_REFERENCE] = P1
    /\ BagIn(AdyenTransaction(UnpackDetails(last.request.params),
                              PAYMENT_RESULT_AUTHORISED, None), last.before)
    /\ ~last.outcome.must_process
    /\ last.outcome.must_acknowledge

\* C2: assess_notification_relevance returns must_process = True exactly
\* when the request is a POST, the platform of the action URL ('live' in it)
\* is the platform of the live flag, eventCode is AUTHORISATION, the PSP
\* reference has no test marker in it and no record with that reference is
\* in the store; the result is then (True, True).
C2_MustProcessExactlyWhenRelevant ==
    last.op = "assess_notification_relevance" =>
        LET post == last.request.params
            relevant ==
                /\ last.request.method = "POST"
                /\ Contains(config.action_url, LIVE)
                     <=> (LIVE \in DOMAIN post /\ post[LIVE] = TRUE_)
                /\ EVENT_CODE \in DOMAIN post
                /\ post[EVENT_CODE] = EVENT_CODE_AUTHORISATION
                /\ PSP_REFERENCE \in DOMAIN post
                /\ ~Contains(post[PSP_REFERENCE], TEST_REFERENCE_PREFIX)
                /\ \A row \in BagToSet(last.before) : row.reference # post[PSP_REFERENCE]
        IN  /\ (last.outcome.raised = "none" /\ last.outcome.must_process) <=> relevant
            /\ last.outcome.must_process => last.outcome.must_acknowledge

\* (True, True) for a notification while the store holds records of other
\* references.
C2_Witness ==
    /\ last.op = "assess_notification_relevance"
    /\ last.outcome.must_process
    /\ last.outcome.must_acknowledge
    /\ last.before # EmptyBag

\* C9: a call whose validation raises MissingFieldException,
\* UnexpectedFieldException or InvalidTransactionException leaves the store
\* as it was before the call.
C9_FailedValidationLeavesStoreUnchanged ==
    (Handled /\ last.outcome.raised \in ValidationExceptions) => store = last.before

\* A redirect with a wrong signature is refused while the store holds records.
C9_Witness ==
    /\ Handled
    /\ last.outcome.raised = "InvalidTransactionException"
    /\ last.before # EmptyBag
    /\ store = last.before

\* The amount text a message carries, None when it carries none.
AmountText(params) ==
    IF MERCHANT_RETURN_DATA \in DOMAIN params THEN Some(params[MERCHANT_RETURN_DATA])
    ELSE IF VALUE \in DOMAIN params THEN Some(params[VALUE])
    ELSE None

\* The record a validated message is to leave.
ExpectedRecord(request) ==
    LET params == request.params
    IN  [order_number |-> Get(params, MERCHANT_REFERENCE, <<>>),
         reference    |-> Get(params, PSP_REFERENCE, <<>>),
         method       |-> Get(params, PAYMENT_METHOD, <<>>),
         status       |-> IF request.method = "GET" THEN params[AUTH_RESULT]
                          ELSE IF params[SUCCESS] = TRUE_ THEN PAYMENT_RESULT_AUTHORISED
                          ELSE PAYMENT_RESULT_REFUSED,
         amount       |-> IF AmountText(params) = None THEN None
                          ELSE Some(IntOf(AmountText(params)[1])),
         ip_address   |-> IF request.method = "GET" /\ request.ip \in ValidIpAddresses
                          THEN Some(request.ip) ELSE None]

\* C10 as stated: every message that passes validation adds exactly one
\* record to the store.
C10_EveryValidatedMessageIsRecorded ==
    (Handled /\ last.outcome.raised \notin ValidationExceptions)
    => BagCardinality(store) = BagCardinality(last.before) + 1

\* C10: a message that passes validation adds at most one record.  When its
\* amount text is not an integer the call raises ValueError and adds none;
\* otherwise the call returns and, when the insert succeeds, adds exactly one
\* record carrying the PSP reference, order reference, payment method,
\* amount and status of the message, accepted or not; when the insert fails
\* the store is as before.
C10_OneRecordPerReturnedCallWhoseInsertSucceeds ==
    (Handled /\ last.outcome.raised \notin ValidationExceptions) =>
        LET text == AmountText(WorkingParams(
                        ResponseClass(last.request.method, config.hmac_algorithm),
                        last.request.params))
        IN  IF text # None /\ ~IsIntLiteral(text[1])
            THEN last.outcome.raised = "ValueError" /\ store = last.before
            ELSE /\ last.outcome.raised = "none"
                 /\ store = IF last.db_ok
                            THEN last.before (+) SetToBag({ExpectedRecord(last.request)})
                            ELSE last.before

\* A cancelled redirect, not accepted, adds its record to a store that
\* already holds one.
C10_Witness ==
    /\ last.op = "handle_payment_return"
    /\ last.outcome.raised = "none"
    /\ ~last.outcome.success
    /\ last.outcome.status = PAYMENT_RESULT_CANCELLED
    /\ last.before # EmptyBag
    /\ BagCardinality(store) = BagCardinality(last.before) + 1
    /\ BagIn(ExpectedRecord(last.request), store)

----------------------------------------------------------------------------
(* Properties of validation and outcome interpretation (SpecMsg).          *)
(* `last.request` is the message received, `last.origin` the issued        *)
(* message and the fields changed in it, `last.outcome` what validate()    *)
(* raised or process() returned.                                           *)

Processed(method) == last.op = "process" /\ last.request.method = method

\* Field validation passes: after the stripping of additional data for a
\* notification, every required field has a non-empty value and every key
\* is a required or an optional one.
PassesFieldValidation(request) ==
    LET cls    == ResponseClass(request.method, config.hmac_algorithm)
        params == [k \in {key \in DOMAIN request.params :
                             request.method = "GET"
                             \/ ~Contains(key, ADDITIONAL_DATA_PREFIX)}
                      |-> request.params[k]]
        known  == Range(REQUIRED_FIELDS(cls)) \cup Range(OPTIONAL_FIELDS(cls))
    IN  /\ \A k \in Range(REQUIRED_FIELDS(cls)) : k \in DOMAIN params /\ params[k] # <<>>
        /\ DOMAIN params \subseteq known

\* The signature recomputed over the received fields.
Recomputed(request) ==
    Hash(ResponseClass("GET", config.hmac_algorithm), config.secret_key, request.params)

\* C3: a redirect whose fields pass field validation and whose merchantSig
\* differs from the recomputed signature raises InvalidTransactionException;
\* it never yields an outcome.
C3_WrongSignatureIsInvalidTransaction ==
    ( /\ Processed("GET")
      /\ PassesFieldValidation(last.request)
      /\ last.request.params[MERCHANT_SIG] # Recomputed(last.request) )
    => last.outcome.raised = "InvalidTransactionException"

\* A refused redirect whose result was changed to AUTHORISED is rejected.
C3_Witness ==
    /\ Processed("GET")
    /\ PassesFieldValidation(last.request)
    /\ last.request.params[MERCHANT_SIG] # Recomputed(last.request)
    /\ last.origin.issued[AUTH_RESULT] = PAYMENT_RESULT_REFUSED
    /\ last.request.params[AUTH_RESULT] = PAYMENT_RESULT_AUTHORISED
    /\ last.outcome.raised = "InvalidTransactionException"

SignatureAbsentOrEmpty(request) == Get(request.params, MERCHANT_SIG, <<>>) = <<>>

\* C4 as stated: a redirect whose merchantSig is absent or empty fails with
\* InvalidTransactionException and no other exception.
C4_AbsentSignatureIsInvalidTransaction ==
    (Processed("GET") /\ SignatureAbsentOrEmpty(last.request))
    => last.outcome.raised = "InvalidTransactionException"

\* C4: a redirect whose merchantSig is absent or empty never yields an
\* outcome, whatever its other fields are: merchantSig is a required field,
\* so the redirect fails field validation with MissingFieldException before
\* any signature is compared; InvalidTransactionException is raised only for
\* a non-empty merchantSig that differs from the recomputed signature.
C4_AbsentSignatureIsMissingField ==
    /\ (Processed("GET") /\ SignatureAbsentOrEmpty(last.request))
       => /\ last.outcome.raised = "MissingFieldException"
          /\ Get(last.request.params, last.outcome.field, <<>>) = <<>>
    /\ (Processed("GET") /\ last.outcome.raised = "InvalidTransactionException")
       => /\ ~SignatureAbsentOrEmpty(last.request)
          /\ last.request.params[MERCHANT_SIG] # Recomputed(last.request)

\* An authorised redirect without merchantSig and with an unknown field:
\* the missing signature is what is reported.
C4_Witness ==
    /\ Processed("GET")
    /\ MERCHANT_SIG \notin DOMAIN last.request.params
    /\ UNKNOWN_FIELD \in DOMAIN last.request.params
    /\ Get(last.request.params, AUTH_RESULT, <<>>) = PAYMENT_RESULT_AUTHORISED
    /\ last.outcome.raised = "MissingFieldException"
    /\ last.outcome.field = MERCHANT_SIG

\* The fields the result signature covers.
SignedRedirectionFields ==
    { AUTH_RESULT, PSP_REFERENCE, MERCHANT_REFERENCE, SKIN_CODE, MERCHANT_RETURN_DATA }
    \cup (IF config.hmac_algorithm = "SHA256" THEN {PAYMENT_METHOD, SHOPPER_LOCALE} ELSE {})

\* The received redirect is an issued one, valid as issued, in which the
\* value of the signed field `edit.key` was replaced by a different value.
IsSingleReplacement(edit) ==
    /\ Processed("GET")
    /\ last.origin.edits = {edit}
    /\ ~edit.del
    /\ edit.key \in SignedRedirectionFields
    /\ edit.value # Get(last.origin.issued, edit.key, <<>>)
    /\ PassesFieldValidation(Request("GET", last.origin.issued, <<>>))
    /\ last.origin.issued[MERCHANT_SIG]
         = Recomputed(Request("GET", last.origin.issued, <<>>))

\* C5 as stated: replacing the value of one signed field of a valid redirect
\* by a different value makes processing raise InvalidTransactionException.
C5_ReplacedFieldIsInvalidTransaction ==
    \A edit \in last.origin.edits :
        IsSingleReplacement(edit) => last.outcome.raised = "InvalidTransactionException"

\* C5: replacing the value of one signed field of a valid redirect by a
\* different value, merchantSig and the other fields left as they were, never
\* yields an outcome: processing raises MissingFieldException when the new
\* value is empty and the field is a required one, and
\* InvalidTransactionException otherwise.
C5_ReplacedFieldIsRejected ==
    \A edit \in last.origin.edits :
        IsSingleReplacement(edit) =>
            last.outcome.raised =
                IF edit.value = <<>>
                   /\ edit.key \in { AUTH_RESULT, MERCHANT_REFERENCE, MERCHANT_SIG,
                                     SHOPPER_LOCALE, SKIN_CODE }
                THEN "MissingFieldException"
                ELSE "InvalidTransactionException"

\* The amount of an authorised redirect was changed from 13 to 99.
C5_Witness ==
    /\ IsSingleReplacement(Put(MERCHANT_RETURN_DATA, <<"9", "9">>))
    /\ last.origin.issued[AUTH_RESULT] = PAYMENT_RESULT_AUTHORISED
    /\ Get(last.origin.issued, MERCHANT_RETURN_DATA, <<>>) = <<"1", "3">>
    /\ last.outcome.raised = "InvalidTransactionException"

\* C7: for a redirect that passes validation the processor returns, without
\* raising, accepted = True exactly when authResult is AUTHORISED, with
\* authResult as the status and the full field mapping, whatever the result
\* code is.
C7_AcceptedExactlyWhenAuthorised ==
    ( /\ Processed("GET")
      /\ PassesFieldValidation(last.request)
      /\ last.request.params[MERCHANT_SIG] = Recomputed(last.request) )
    => /\ last.outcome.raised = "none"
       /\ last.outcome.success
            <=> (last.request.params[AUTH_RESULT] = PAYMENT_RESULT_AUTHORISED)
       /\ last.outcome.status = last.request.params[AUTH_RESULT]
       /\ last.outcome.details = last.request.params

\* A result code outside the known ones is returned as the status of an
\* outcome that is not accepted.
C7_Witness ==
    /\ Processed("GET")
    /\ Get(last.request.params, AUTH_RESULT, <<>>) = <<"FOO">>
    /\ last.outcome.raised = "none"
    /\ ~last.outcome.success
    /\ last.outcome.status = <<"FOO">>
    /\ last.outcome.details = last.request.params

\* Additional data a notification may carry besides its own fields.
AdditionalData ==
    { NoParams,
      HMAC_SIGNATURE :> <<"coqCmt/IZ4E3CzPvMY8zTjQVL5hYJUiBRg8UU+iCWo0=">>,
      HMAC_SIGNATURE :> <<"14M4N3V1LH4X0RZ">>,
      ADDITIONAL_FOO :> <<"FOO">>,
      (HMAC_SIGNATURE :> <<"14M4N3V1LH4X0RZ">>) @@ (ADDITIONAL_FOO :> <<"BAR">>) }

\* C8: for a notification that passes field validation the outcome is
\* accepted with status AUTHORISED exactly when success is 'true', and not
\* accepted with status REFUSED otherwise; no signature is verified, and a
\* notification that differs from it only in additionalData.* fields, a
\* signature among them, gets the same outcome.
C8_NotificationOutcomeIsTheSuccessField ==
    (Processed("POST") /\ PassesFieldValidation(last.request)) =>
        LET params   == last.request.params
            accepted == params[SUCCESS] = TRUE_
            status   == IF accepted THEN PAYMENT_RESULT_AUTHORISED
                        ELSE PAYMENT_RESULT_REFUSED
            own      == [k \in {key \in DOMAIN params :
                                   ~Contains(key, ADDITIONAL_DATA_PREFIX)} |-> params[k]]
        IN  /\ last.outcome.raised = "none"
            /\ last.outcome.success = accepted
            /\ last.outcome.status = status
            /\ \A data \in AdditionalData :
                  LET other == ValidateAndProcess(
                                   ResponseClass("POST", config.hmac_algorithm),
                                   config.secret_key, data @@ own)
                  IN  /\ other.raised = "ok"
                      /\ other.accepted = accepted
                      /\ other.status = status

\* A notification with a signature nobody issued is accepted.
C8_Witness ==
    /\ Processed("POST")
    /\ HMAC_SIGNATURE \in DOMAIN last.request.params
    /\ last.request.params[HMAC_SIGNATURE] = <<"14M4N3V1LH4X0RZ">>
    /\ last.outcome.raised = "none"
    /\ last.outcome.success
    /\ last.outcome.status = PAYMENT_RESULT_AUTHORISED

----------------------------------------------------------------------------
(* Properties of concurrent deliveries (SpecRace)                          *)

\* The number of records with the reference.
RecordsOf(table, reference) ==
    BagCardinality([row \in {r \in BagToSet(table) : r.reference = reference}
                       |-> CopiesIn(row, table)])

\* The deliveries of the reference that were processed and whose insert
\* succeeded.
Recorded(reference) ==
    {d \in 1..MaxDeliveries :
        /\ deliveries[d].pc = "processed"
        /\ deliveries[d].outcome.raised = "none"
        /\ deliveries[d].db_ok
        /\ deliveries[d].request.params[PSP_REFERENCE] = reference}

\* C6: the dedup check of the assessment and the insert of the processing
\* are separate steps and the store enforces no uniqueness on reference:
\* every delivery that is processed adds a record, so the store holds as many
\* records of a reference as deliveries of it were processed, two when two
\* deliveries of the same notification were both assessed (True, True)
\* before either insert.
C6_EveryProcessedDeliveryAddsARecord ==
    \A reference \in {P1, P2} :
        RecordsOf(store, reference) = Cardinality(Recorded(reference))

\* Two deliveries of the same notification, both assessed (True, True), both
\* processed: two records with the same reference.
C6_Witness ==
    /\ deliveries[1].request = deliveries[2].request
    /\ \A d \in {1, 2} :
          /\ deliveries[d].pc = "processed"
          /\ deliveries[d].relevance.must_process
          /\ deliveries[d].relevance.must_acknowledge
          /\ deliveries[d].outcome.raised = "none"
          /\ deliveries[d].request.params[PSP_REFERENCE] = P1
    /\ RecordsOf(store, P1) = 2

----------------------------------------------------------------------------
(* Properties of assess_notification_relevance (Spec)                      *)

Assessed == last.op = "assess_notification_relevance"

\* The request is a POST and the platform named by the action URL is the
\* platform named by the live flag.
IsPostForPlatform(request) ==
    /\ request.method = "POST"
    /\ Contains(config.action_url, LIVE) <=> (Get(request.params, LIVE, <<>>) = TRUE_)

\* C11: assess_notification_relevance returns (False, False) exactly when
\* the request is not a POST or the platform of the action URL differs from
\* the platform of the live flag; for every other request it returns a pair
\* with must_acknowledge = True, and (False, True) for a POST of the matching
\* platform whose eventCode is not AUTHORISATION.
C11_EveryOtherRequestIsAcknowledged ==
    Assessed =>
        /\ ( /\ last.outcome.raised = "none"
             /\ ~last.outcome.must_process
             /\ ~last.outcome.must_acknowledge ) <=> ~IsPostForPlatform(last.request)
        /\ IsPostForPlatform(last.request) =>
              /\ last.outcome.raised = "none"
              /\ last.outcome.must_acknowledge
        /\ ( /\ IsPostForPlatform(last.request)
             /\ Get(last.request.params, EVENT_CODE, <<>>) # EVENT_CODE_AUTHORISATION )
           => last.outcome = Relevance(FALSE, TRUE)

\* A POST of the matching platform with eventCode AUTHORISATION and no
\* pspReference: the assessment raises KeyError and returns no pair.
C11_Witness ==
    /\ Assessed
    /\ IsPostForPlatform(last.request)
    /\ Get(last.request.params, EVENT_CODE, <<>>) = EVENT_CODE_AUTHORISATION
    /\ PSP_REFERENCE \notin DOMAIN last.request.params
    /\ last.outcome.raised = "KeyError"
    /\ ~last.outcome.must_acknowledge

\* The notification carries a PSP reference that has the test marker in it.
IsTestNotification(request) ==
    /\ request.method = "POST"
    /\ PSP_REFERENCE \in DOMAIN request.params
    /\ Contains(request.params[PSP_REFERENCE], TEST_REFERENCE_PREFIX)

\* C12 as stated: a notification whose PSP reference contains
\* 'test_AUTHORISATION' always yields (False, True), whatever its event code,
\* its success flag and the platform the receiving system is configured for.
C12_TestNotificationIsAlwaysAcknowledged ==
    (Assessed /\ IsTestNotification(last.request))
    => last.outcome = Relevance(FALSE, TRUE)

\* C12: a notification whose PSP reference contains 'test_AUTHORISATION'
\* yields (False, True) whatever its event code and success flag when its live
\* flag names the platform of the action URL, be that live or test, and
\* (False, False) when it names the other platform.
C12_TestNotificationOfThePlatformIsAcknowledged ==
    (Assessed /\ IsTestNotification(last.request))
    => last.outcome = IF IsPostForPlatform(last.request)
                      THEN Relevance(FALSE, TRUE)
                      ELSE Relevance(FALSE, FALSE)

\* A failed (success false) AUTHORISATION test notification from the live
\* platform reaches the system configured for the live platform, which holds
\* records, and is acknowledged only.
C12_Witness ==
    /\ Assessed
    /\ IsTestNotification(last.request)
    /\ Contains(config.action_url, LIVE)
    /\ Get(last.request.params, LIVE, <<>>) = TRUE_
    /\ Get(last.request.params, SUCCESS, <<>>) = FALSE_
    /\ Get(last.request.params, EVENT_CODE, <<>>) = EVENT_CODE_AUTHORISATION
    /\ last.before # EmptyBag
    /\ last.outcome = Relevance(FALSE, TRUE)

\* C13: assess_notification_relevance never changes the store: the store
\* after the call is the store before it, and the same call on that unchanged
\* store returns the same pair again.
C13_AssessmentLeavesTheStoreUnchanged ==
    Assessed =>
        /\ store = last.before
        /\ AssessNotificationRelevance(config, store, last.request) = last.outcome

\* A notification is assessed (True, True) while the store holds a record,
\* and the store is as it was.
C13_Witness ==
    /\ Assessed
    /\ last.outcome.must_process
    /\ last.outcome.must_acknowledge
    /\ BagCardinality(last.before) = 1
    /\ store = last.before

----------------------------------------------------------------------------
(* Properties of field validation (SpecMsg): payment form, redirect and    *)
(* notification                                                            *)

\* validate() has run on the message: in get_response's response object or
\* in the PaymentFormRequest.
Validated == last.op \in {"process", "build_payment_form_fields"}

\* The schema the message is validated against.
SchemaOf(request) ==
    IF request.method = "FORM" THEN PaymentFormRequestClass(config.hmac_algorithm)
    ELSE ResponseClass(request.method, config.hmac_algorithm)

RequiredOf(request) == Range(REQUIRED_FIELDS(SchemaOf(request)))

KnownOf(request) == RequiredOf(request) \cup Range(OPTIONAL_FIELDS(SchemaOf(request)))

\* Every required field of the schema is in the message with a value that
\* is not empty.
RequiredFieldsGiven(request) ==
    \A k \in RequiredOf(request) :
        k \in DOMAIN request.params /\ request.params[k] # <<>>

\* str.startswith
StartsWith(key, prefix) ==
    Len(key) >= Len(prefix) /\ SubSeq(key, 1, Len(prefix)) = prefix

FieldExceptions == {"MissingFieldException", "UnexpectedFieldException"}

\* C14: field validation raises MissingFieldException whenever at least one
\* required field of the schema is absent or has an empty value, for the
\* payment form, the redirect and the notification schema alike: no message
\* with a missing or empty required field is accepted.
C14_MissingRequiredFieldIsMissingFieldException ==
    (Validated /\ ~RequiredFieldsGiven(last.request))
    => last.outcome.raised = "MissingFieldException"

\* A payment form whose paymentAmount is empty, and which also has a field
\* outside the schema, is refused for the missing field.
C14_Witness ==
    /\ last.op = "build_payment_form_fields"
    /\ Get(last.request.params, PAYMENT_AMOUNT, <<"absent">>) = <<>>
    /\ UNKNOWN_FIELD \in DOMAIN last.request.params
    /\ last.outcome.raised = "MissingFieldException"
    /\ last.outcome.field = PAYMENT_AMOUNT

\* The field name is in the schema or, for a notification, starts with the
\* additional data prefix.
IsSchemaField(request, key) ==
    \/ key \in KnownOf(request)
    \/ request.method = "POST" /\ StartsWith(key, ADDITIONAL_DATA_PREFIX)

\* C15: field validation accepts a message exactly when every required field
\* is present and not empty and every field name is a required or optional one
\* or, for a notification, starts with the additional data prefix; a message
\* with its required fields and a field outside that set, such as a
\* notification field that has 'additionalData.' elsewhere than at its start,
\* fails with UnexpectedFieldException.
C15_AcceptedExactlyWhenInSchema ==
    Validated =>
        /\ last.outcome.raised \notin FieldExceptions
             <=> /\ RequiredFieldsGiven(last.request)
                 /\ \A k \in DOMAIN last.request.params : IsSchemaField(last.request, k)
        /\ ( /\ RequiredFieldsGiven(last.request)
             /\ \E k \in DOMAIN last.request.params : ~IsSchemaField(last.request, k) )
           => last.outcome.raised = "UnexpectedFieldException"

\* A notification with the field 'x.additionalData.foo' passes validation and
\* is processed.
C15_Witness ==
    /\ Processed("POST")
    /\ <<"x.", "additionalData.", "foo">> \in DOMAIN last.request.params
    /\ ~IsSchemaField(last.request, <<"x.", "additionalData.", "foo">>)
    /\ last.outcome.raised = "none"
    /\ last.outcome.success

\* The fields of the message whose names do not start with the prefix.
WithoutPrefixed(params, prefix) ==
    [k \in {key \in DOMAIN params : ~StartsWith(key, prefix)} |-> params[k]]

\* C16: a notification with every required field and, besides required and
\* optional fields, only fields whose names start with 'additionalData.'
\* passes validation, however many of these it has; the mapping process()
\* returns has none of them and has every other field with its value.
C16_AdditionalDataIsDropped ==
    ( /\ Processed("POST")
      /\ RequiredFieldsGiven(last.request)
      /\ \A k \in DOMAIN last.request.params :
            k \in KnownOf(last.request) \/ StartsWith(k, ADDITIONAL_DATA_PREFIX) )
    => /\ last.outcome.raised = "none"
       /\ last.outcome.details = WithoutPrefixed(last.request.params, ADDITIONAL_DATA_PREFIX)

\* A notification with two additional data fields passes; process() returns
\* the thirteen fields of the schema.
C16_Witness ==
    /\ Processed("POST")
    /\ {ADDITIONAL_FOO, ADDITIONAL_CARD_BIN} \subseteq DOMAIN last.request.params
    /\ last.outcome.raised = "none"
    /\ DOMAIN last.outcome.details = KnownOf(last.request)
    /\ last.outcome.details[PSP_REFERENCE] = P1

OPEN_INVOICE_DATA_PREFIX == <<"openinvoicedata.">>

HasOpenInvoiceData(request) ==
    \E k \in DOMAIN request.params : StartsWith(k, OPEN_INVOICE_DATA_PREFIX)

----------------------------------------------------------------------------
(* signers.HMACSha1: the signer of the payment form and the verifier of    *)
(* the payment return, with the names of adyen/constants.py                *)

DELIVERY_SIG == <<"deliveryAddressSig">>
DELIVERY_STREET == <<"deliveryAddress.", "street">>
DELIVERY_NUMBER == <<"deliveryAddress.", "houseNumberOrName">>
DELIVERY_CITY == <<"deliveryAddress.", "city">>
DELIVERY_POSTCODE == <<"deliveryAddress.", "postalCode">>
DELIVERY_STATE == <<"deliveryAddress.", "stateOrProvince">>
DELIVERY_COUNTRY == <<"deliveryAddress.", "country">>
BILLING_SIG == <<"billingAddressSig">>
BILLING_STREET == <<"billingAddress.", "street">>
BILLING_NUMBER == <<"billingAddress.", "houseNumberOrName">>
BILLING_CITY == <<"billingAddress.", "city">>
BILLING_POSTCODE == <<"billingAddress.", "postalCode">>
BILLING_STATE == <<"billingAddress.", "stateOrProvince">>
BILLING_COUNTRY == <<"billingAddress.", "country">>
SHOPPER_SIG == <<"shopperSig">>
SHOPPER_FIRSTNAME == <<"shopper.", "firstName">>
SHOPPER_INFIX == <<"shopper.", "infix">>
SHOPPER_LASTNAME == <<"shopper.", "lastName">>
SHOPPER_GENDER == <<"shopper.", "gender">>
SHOPPER_BIRTH_DAY == <<"shopper.", "dateOfBirthDayOfMonth">>
SHOPPER_BIRTH_MONTH == <<"shopper.", "dateOfBirthMonth">>
SHOPPER_BIRTH_YEAR == <<"shopper.", "dateOfBirthYear">>
SHOPPER_PHONE == <<"shopper.", "telephoneNumber">>

\* The signed keys of the payment form without shopperType.
PaymentFormHashKeysWithoutShopperType ==
    << PAYMENT_AMOUNT, CURRENCY_CODE, SHIP_BEFORE_DATE, MERCHANT_REFERENCE, SKIN_CODE,
       MERCHANT_ACCOUNT, SESSION_VALIDITY, SHOPPER_EMAIL, SHOPPER_REFERENCE,
       RECURRING_CONTRACT, ALLOWED_METHODS, BLOCKED_METHODS, SHOPPER_STATEMENT,
       MERCHANT_RETURN_DATA, BILLING_ADDRESS_TYPE, DELIVERY_ADDRESS_TYPE, OFFSET >>

PAYMENT_FORM_HASH_KEYS ==
    << PAYMENT_AMOUNT, CURRENCY_CODE, SHIP_BEFORE_DATE, MERCHANT_REFERENCE, SKIN_CODE,
       MERCHANT_ACCOUNT, SESSION_VALIDITY, SHOPPER_EMAIL, SHOPPER_REFERENCE,
       RECURRING_CONTRACT, ALLOWED_METHODS, BLOCKED_METHODS, SHOPPER_STATEMENT,
       MERCHANT_RETURN_DATA, BILLING_ADDRESS_TYPE, DELIVERY_ADDRESS_TYPE,
       SHOPPER_TYPE, OFFSET >>

PAYMENT_DELIVERY_HASH_KEYS ==
    << DELIVERY_STREET, DELIVERY_NUMBER, DELIVERY_CITY, DELIVERY_POSTCODE,
       DELIVERY_STATE, DELIVERY_COUNTRY >>

PAYMENT_BILLING_HASH_KEYS ==
    << BILLING_STREET, BILLING_NUMBER, BILLING_CITY, BILLING_POSTCODE,
       BILLING_STATE, BILLING_COUNTRY >>

PAYMENT_SHOPPER_HASH_KEYS ==
    << SHOPPER_FIRSTNAME, SHOPPER_INFIX, SHOPPER_LASTNAME, SHOPPER_GENDER,
       SHOPPER_BIRTH_DAY, SHOPPER_BIRTH_MONTH, SHOPPER_BIRTH_YEAR, SHOPPER_PHONE >>

PAYMENT_RETURN_HASH_KEYS ==
    << AUTH_RESULT, PSP_REFERENCE, MERCHANT_REFERENCE, SKIN_CODE, MERCHANT_RETURN_DATA >>

\* HMACSha1.compute_hash: base64(HMAC_SHA1(secret_key, signature)), the
\* digest Gateway._compute_hash gives for SHA1.
HMACSha1ComputeHash(secret_key, signature) == ComputeHash("SHA1", secret_key, signature)

\* ''.join(str(fields.get(key, '')) for key in keys)
SigningString(keys, fields) == Concat(SignedValues(keys, fields))

\* A mapping with the key when the condition holds, the empty mapping
\* otherwise: `if condition: sign_fields[key] = value`.
When(condition, key, value) == [k \in (IF condition THEN {key} ELSE {}) |-> value]

\* A signer that gives a shopperSig for shopper.* fields only.
HMACSha1SignShopperFieldsOnly(secret_key, fields) ==
    LET hash(keys) == HMACSha1ComputeHash(secret_key, SigningString(keys, fields))
    IN  (MERCHANT_SIG :> hash(PAYMENT_FORM_HASH_KEYS))
        @@ When(Range(PAYMENT_DELIVERY_HASH_KEYS) \cap DOMAIN fields # {},
                DELIVERY_SIG, hash(PAYMENT_DELIVERY_HASH_KEYS))
        @@ When(Range(PAYMENT_BILLING_HASH_KEYS) \cap DOMAIN fields # {},
                BILLING_SIG, hash(PAYMENT_BILLING_HASH_KEYS))
        @@ When(Range(PAYMENT_SHOPPER_HASH_KEYS) \cap DOMAIN fields # {},
                SHOPPER_SIG, hash(PAYMENT_SHOPPER_HASH_KEYS))

\* HMACSha1.sign(fields): the dict of signature fields.
HMACSha1Sign(secret_key, fields) ==
    LET hash(keys) == HMACSha1ComputeHash(secret_key, SigningString(keys, fields))
    IN  (MERCHANT_SIG :> hash(PAYMENT_FORM_HASH_KEYS))
        @@ When(Range(PAYMENT_DELIVERY_HASH_KEYS) \cap DOMAIN fields # {},
                DELIVERY_SIG, hash(PAYMENT_DELIVERY_HASH_KEYS))
        @@ When(Range(PAYMENT_BILLING_HASH_KEYS) \cap DOMAIN fields # {},
                BILLING_SIG, hash(PAYMENT_BILLING_HASH_KEYS))
        @@ When(\/ Range(PAYMENT_SHOPPER_HASH_KEYS) \cap DOMAIN fields # {}
                \/ SHOPPER_TYPE \in DOMAIN fields,
                SHOPPER_SIG, hash(PAYMENT_SHOPPER_HASH_KEYS))

\* A verifier that demands a signature.
HMACSha1VerifySignedOnly(secret_key, fields) ==
    /\ MERCHANT_SIG \in DOMAIN fields
    /\ fields[MERCHANT_SIG]
         = HMACSha1ComputeHash(secret_key, SigningString(PAYMENT_RETURN_HASH_KEYS, fields))

\* HMACSha1.verify(fields)
HMACSha1Verify(secret_key, fields) ==
    IF MERCHANT_SIG \in DOMAIN fields
    THEN fields[MERCHANT_SIG]
           = HMACSha1ComputeHash(secret_key, SigningString(PAYMENT_RETURN_HASH_KEYS, fields))
    ELSE TRUE

----------------------------------------------------------------------------
(* SpecSign: one mapping through HMACSha1.sign or HMACSha1.verify.  The    *)
(* mapping is a fixture of tests/test_signers_sha1.py with at most         *)
(* MaxFieldEdits fields changed.                                           *)

MaxFieldEdits == 2

\* test_sign_with_shopper: the fields with the shopper's names.
ShopperFields ==
    (SHOPPER_FIRSTNAME :> <<"First Name">>) @@ (SHOPPER_LASTNAME :> <<"Last Name">>)

\* The return fields as the PSP signs them with the shared secret.
SignedReturn(secret_key, fields) ==
    SetField(fields, MERCHANT_SIG,
             HMACSha1ComputeHash(secret_key, SigningString(PAYMENT_RETURN_HASH_KEYS, fields)))

SignEdits ==
    {Put(k, <<"x">>) : k \in Range(PAYMENT_DELIVERY_HASH_KEYS)
                            \cup Range(PAYMENT_BILLING_HASH_KEYS)
                            \cup Range(PAYMENT_SHOPPER_HASH_KEYS)}
    \cup { Put(SHOPPER_TYPE, <<"2">>), Put(SHOPPER_TYPE, <<"1">>), Put(SHOPPER_TYPE, <<>>),
           Put(PAYMENT_AMOUNT, <<"4", "5", "6">>), Drop(PAYMENT_AMOUNT),
           Put(OFFSET, <<"2">>), Put(COUNTRY_CODE, <<"de">>), Drop(MERCHANT_RETURN_URL),
           Put(SHOPPER_LOCALE, <<"en_GB">>), Put(MERCHANT_SIG, <<"14M4N3V1LH4X0RZ">>),
           Put(SHOPPER_SIG, <<"14M4N3V1LH4X0RZ">>), Drop(SHOPPER_FIRSTNAME),
           Put(UNKNOWN_FIELD, <<"foo">>) }

VerifyEdits ==
    {Drop(k) : k \in Range(PAYMENT_RETURN_HASH_KEYS) \cup {MERCHANT_SIG}}
    \cup {Put(k, <<>>) : k \in Range(PAYMENT_RETURN_HASH_KEYS) \cup {MERCHANT_SIG}}
    \cup { Put(AUTH_RESULT, PAYMENT_RESULT_AUTHORISED),
           Put(MERCHANT_RETURN_DATA, <<"9", "9">>),
           Put(MERCHANT_RETURN_DATA, <<"3">>),
           Put(SKIN_CODE, <<"4d72uQqA", "1">>),
           Put(PSP_REFERENCE, P2),
           Put(MERCHANT_SIG, <<"14M4N3V1LH4X0RZ">>),
           Put(SHOPPER_LOCALE, <<"fr">>), Drop(PAYMENT_METHOD),
           Put(UNKNOWN_FIELD, <<"foo">>) }

\* The inputs of SpecSign: the operation, the fixture, the changed fields.
SignerInputs(cfg) ==
    {[method |-> "sign", issued |-> m, edits |-> es] :
        m \in {PaymentFormParams, ShopperFields @@ PaymentFormParams},
        es \in EditSets(SignEdits, MaxFieldEdits)}
    \cup {[method |-> "verify", issued |-> SignedReturn(cfg.secret_key, m), edits |-> es] :
        m \in { RedirectionFields(PAYMENT_RESULT_AUTHORISED, Some(P1), Some(<<"1", "3">>)),
                RedirectionFields(PAYMENT_RESULT_ERROR, None, Some(<<"1", "3">>)),
                RedirectionFields(PAYMENT_RESULT_REFUSED, Some(P1), None) },
        es \in EditSets(VerifyEdits, MaxFieldEdits)}

InitSign ==
    /\ config \in {cfg \in Configs : /\ cfg.action_url = TestActionUrl
                                     /\ cfg.hmac_algorithm = "SHA1"}
    /\ store = EmptyBag
    /\ deliveries = [d \in 1..MaxDeliveries |-> Idle]
    /\ \E input \in SignerInputs(config) : last = Received(input)

\* HMACSha1(secret_key).sign(fields): the outcome's details are the
\* signature fields.
Sign ==
    /\ last.op = "received"
    /\ last.request.method = "sign"
    /\ last' = [last EXCEPT
                  !.op = "sign",
                  !.outcome = [NoOutcome EXCEPT
                                 !.details = HMACSha1Sign(config.secret_key,
                                                          last.request.params)]]
    /\ UNCHANGED <<config, store, deliveries>>

\* HMACSha1(secret_key).verify(fields): the outcome's success is the result.
Verify ==
    /\ last.op = "received"
    /\ last.request.method = "verify"
    /\ last' = [last EXCEPT
                  !.op = "verify",
                  !.outcome = [NoOutcome EXCEPT
                                 !.success = HMACSha1Verify(config.secret_key,
                                                            last.request.params)]]
    /\ UNCHANGED <<config, store, deliveries>>

NextSign == Sign \/ Verify

SpecSign == InitSign /\ [][NextSign]_vars

----------------------------------------------------------------------------
(* Properties of the SHA-1 signer (SpecSign)                               *)

\* The fields are given some key of the set.
HasAnyOf(fields, keys) == keys \cap DOMAIN fields # {}

\* C18: HMACSha1.sign always returns merchantSig; it returns
\* deliveryAddressSig exactly when at least one of the six deliveryAddress.*
\* keys is in the input, billingAddressSig exactly when at least one of the
\* six billingAddress.* keys is, shopperSig exactly when at least one of the
\* eight shopper.* keys or shopperType is; it returns no other field.
C18_SignReturnsTheSignaturesOfTheGivenGroups ==
    last.op = "sign" =>
        LET fields == last.request.params
            signed == DOMAIN last.outcome.details
        IN  /\ MERCHANT_SIG \in signed
            /\ DELIVERY_SIG \in signed
                 <=> HasAnyOf(fields, Range(PAYMENT_DELIVERY_HASH_KEYS))
            /\ BILLING_SIG \in signed
                 <=> HasAnyOf(fields, Range(PAYMENT_BILLING_HASH_KEYS))
            /\ SHOPPER_SIG \in signed
                 <=> \/ HasAnyOf(fields, Range(PAYMENT_SHOPPER_HASH_KEYS))
                     \/ SHOPPER_TYPE \in DOMAIN fields
            /\ signed \subseteq {MERCHANT_SIG, DELIVERY_SIG, BILLING_SIG, SHOPPER_SIG}
            /\ Cardinality(Range(PAYMENT_DELIVERY_HASH_KEYS)) = 6
            /\ Cardinality(Range(PAYMENT_BILLING_HASH_KEYS)) = 6
            /\ Cardinality(Range(PAYMENT_SHOPPER_HASH_KEYS)) = 8

\* The fixture with shopperType and a billing country, and no shopper.* and
\* no deliveryAddress.* field: merchantSig, billingAddressSig and shopperSig.
C18_Witness ==
    /\ last.op = "sign"
    /\ SHOPPER_TYPE \in DOMAIN last.request.params
    /\ BILLING_COUNTRY \in DOMAIN last.request.params
    /\ ~HasAnyOf(last.request.params, Range(PAYMENT_SHOPPER_HASH_KEYS))
    /\ DOMAIN last.outcome.details = {MERCHANT_SIG, BILLING_SIG, SHOPPER_SIG}

\* The eighteen keys of the payment form that merchantSig signs.
SignedFormKeys ==
    { PAYMENT_AMOUNT, CURRENCY_CODE, SHIP_BEFORE_DATE, MERCHANT_REFERENCE, SKIN_CODE,
      MERCHANT_ACCOUNT, SESSION_VALIDITY, SHOPPER_EMAIL, SHOPPER_REFERENCE,
      RECURRING_CONTRACT, ALLOWED_METHODS, BLOCKED_METHODS, SHOPPER_STATEMENT,
      MERCHANT_RETURN_DATA, BILLING_ADDRESS_TYPE, DELIVERY_ADDRESS_TYPE,
      SHOPPER_TYPE, OFFSET }

\* The two inputs have the same text for every key of the set, an absent
\* key having the text ''.
AgreeOn(keys, a, b) == \A k \in keys : Get(a, k, <<>>) = Get(b, k, <<>>)

\* The inputs the signed input is compared with: the fixture it was made
\* from, and the signed input with one more field changed.
ComparedWith(fields) == {last.origin.issued} \cup {Apply(fields, e) : e \in SignEdits}

\* C19: the merchantSig of HMACSha1.sign depends on the values of the
\* eighteen payment-form keys only: two inputs that agree on them get the
\* same merchantSig whatever else differs, and two inputs that agree on all
\* of them but shopperType get different ones.  The shopperSig depends on the
\* eight shopper.* keys only: two inputs that get one and agree on these keys
\* get the same shopperSig, with or without shopperType.
C19_SignaturesDependOnTheirKeysOnly ==
    last.op = "sign" =>
        LET fields == last.request.params
            signed == last.outcome.details
        IN  \A other \in ComparedWith(fields) :
               LET resigned == HMACSha1Sign(config.secret_key, other)
               IN  /\ AgreeOn(SignedFormKeys, fields, other)
                      => resigned[MERCHANT_SIG] = signed[MERCHANT_SIG]
                   /\ ( /\ AgreeOn(SignedFormKeys \ {SHOPPER_TYPE}, fields, other)
                        /\ ~AgreeOn({SHOPPER_TYPE}, fields, other) )
                      => resigned[MERCHANT_SIG] # signed[MERCHANT_SIG]
                   /\ ( /\ AgreeOn(Range(PAYMENT_SHOPPER_HASH_KEYS), fields, other)
                        /\ SHOPPER_SIG \in DOMAIN signed
                        /\ SHOPPER_SIG \in DOMAIN resigned )
                      => resigned[SHOPPER_SIG] = signed[SHOPPER_SIG]

\* tests/test_signers_sha1.py test_sign_with_shopper: shopperType '2' is
\* added to the fields with the shopper's names, and the country code is
\* changed; the merchantSig changes and the shopperSig does not.
C19_Witness ==
    /\ last.op = "sign"
    /\ last.origin.issued = ShopperFields @@ PaymentFormParams
    /\ last.origin.edits = {Put(SHOPPER_TYPE, <<"2">>), Put(COUNTRY_CODE, <<"de">>)}
    /\ LET before == HMACSha1Sign(config.secret_key, last.origin.issued)
       IN  /\ last.outcome.details[MERCHANT_SIG] # before[MERCHANT_SIG]
           /\ last.outcome.details[SHOPPER_SIG] = before[SHOPPER_SIG]

\* The signing string of the payment return: the values of authResult,
\* pspReference, merchantReference, skinCode and merchantReturnData in this
\* order, '' for an absent key.
ReturnSigningString(fields) ==
    Get(fields, AUTH_RESULT, <<>>) \o Get(fields, PSP_REFERENCE, <<>>)
    \o Get(fields, MERCHANT_REFERENCE, <<>>) \o Get(fields, SKIN_CODE, <<>>)
    \o Get(fields, MERCHANT_RETURN_DATA, <<>>)

\* C20: HMACSha1.verify returns True for every mapping without the key
\* merchantSig; for a mapping with it, it returns True exactly when the value
\* is the hash of the concatenated values of authResult, pspReference,
\* merchantReference, skinCode and merchantReturnData, in this order, absent
\* keys giving ''.
C20_VerifyComparesTheReturnSignature ==
    last.op = "verify" =>
        LET fields == last.request.params
        IN  last.outcome.success
            <=> \/ MERCHANT_SIG \notin DOMAIN fields
                \/ fields[MERCHANT_SIG]
                     = HMACSha1ComputeHash(config.secret_key, ReturnSigningString(fields))

\* The return of a payment in error, without pspReference, is verified with
\* its signature although its shopperLocale was changed on the way.
C20_Witness ==
    /\ last.op = "verify"
    /\ MERCHANT_SIG \in DOMAIN last.request.params
    /\ PSP_REFERENCE \notin DOMAIN last.request.params
    /\ last.origin.edits = {Put(SHOPPER_LOCALE, <<"fr">>)}
    /\ last.outcome.success

----------------------------------------------------------------------------
(* scaffold: the payment form built from the order data.  A datum of the   *)
(* order data is an int or a str; an absent datum is an absent key.  The   *)
(* names of adyen/constants.py stand for the attributes of Constants that  *)
(* the scaffold reads.                                                     *)

PAYMENT_BRAND_CODE == <<"brandCode">>
PAYMENT_ISSUER_ID == <<"issuerId">>

IntValue(n) == [type |-> "int", int |-> n, str |-> <<>>]
StrValue(s) == [type |-> "str", int |-> 0, str |-> s]

\* The decimal digits of a natural number.
RECURSIVE DecimalDigits(_)
DecimalDigits(n) ==
    LET digit == CHOOSE d \in Digits : DigitValue(d) = n % 10
    IN  IF n < 10 THEN <<digit>> ELSE DecimalDigits(n \div 10) \o <<digit>>

\* Python str(): the decimal text of an int, a str as it is.
Str(v) ==
    IF v.type = "str" THEN v.str
    ELSE IF v.int < 0 THEN <<"-">> \o DecimalDigits(0 - v.int)
    ELSE DecimalDigits(v.int)

RECURSIVE Strip(_)
Strip(s) ==
    IF s = <<>> THEN s
    ELSE IF Head(s) = " " THEN Strip(Tail(s))
    ELSE IF s[Len(s)] = " " THEN Strip(SubSeq(s, 1, Len(s) - 1))
    ELSE s

\* sanitize_field: str(value), line breaks turned into spaces, stripped.
SanitizeField(value) ==
    Strip([i \in DOMAIN Str(value) |->
              IF Str(value)[i] \in {"\n", "\r"} THEN " " ELSE Str(value)[i]])

\* Scaffold.get_field_allowed_methods: the configured methods, stripped and
\* joined by commas; None when there are none.
GetFieldAllowedMethods(settings) ==
    IF settings.allowed_methods = None \/ settings.allowed_methods[1] = <<>>
    THEN None
    ELSE Some(StrValue(Join(<<",">>, [i \in DOMAIN settings.allowed_methods[1] |->
                                          Strip(settings.allowed_methods[1][i])])))

\* A get_field_merchant_return_data of a scaffold that keeps no custom data.
GetNoMerchantReturnData(order_data) == None

\* Scaffold.get_field_merchant_return_data
GetFieldMerchantReturnData(order_data) == Some(order_data["amount"])

\* Scaffold.get_field_return_url
GetFieldReturnUrl(order_data) ==
    IF "return_url" \notin DOMAIN order_data \/ order_data["return_url"].str = <<>>
    THEN None
    ELSE LET url == order_data["return_url"].str
         IN  Some(StrValue(Concat([i \in DOMAIN url |->
                                      IF url[i] = "PAYMENT_PROVIDER_CODE" THEN ADYEN
                                      ELSE <<url[i]>>])))

\* Scaffold.get_fields_shopper
GetFieldsShopper(order_data) ==
    LET shopper   == order_data["adyen_shopper"]
        birthdate == shopper.birthdate
        of(key)   == StrValue(Get(shopper.data, key, <<>>))
        born(n)   == IF birthdate = None THEN StrValue(<<>>) ELSE StrValue(DecimalDigits(n))
    IN  (SHOPPER_FIRSTNAME :> of("first_name")) @@ (SHOPPER_INFIX :> of("infix"))
        @@ (SHOPPER_LASTNAME :> of("last_name")) @@ (SHOPPER_GENDER :> of("gender"))
        @@ (SHOPPER_BIRTH_DAY :> born(IF birthdate = None THEN 0 ELSE birthdate[1].day))
        @@ (SHOPPER_BIRTH_MONTH :> born(IF birthdate = None THEN 0 ELSE birthdate[1].month))
        @@ (SHOPPER_BIRTH_YEAR :> born(IF birthdate = None THEN 0 ELSE birthdate[1].year))
        @@ (SHOPPER_PHONE :> of("phone_number"))
        @@ (SHOPPER_TYPE :> IF "shopper_visibility" \in DOMAIN order_data
                            THEN order_data["shopper_visibility"] ELSE StrValue(<<"2">>))

IsDigit(token) == token # <<>> /\ \A i \in DOMAIN token : token[i] \in Digits

\* Scaffold.get_street_housenr: the address lines from the first all-digit
\* one on are the house number; without one, the last line is.
GetStreetHousenr(address) ==
    LET lines   == <<address.line1, address.line2, address.line3>>
        words   == SelectSeq(lines, LAMBDA l : l # <<>>)
        numbers == {i \in DOMAIN words : IsDigit(words[i])}
        offset  == IF numbers # {} THEN Min(numbers) ELSE Len(words)
    IN  [street  |-> Join(<<" ">>, SubSeq(words, 1, offset - 1)),
         housenr |-> Join(<<" ">>, SubSeq(words, offset, Len(words)))]

\* Scaffold.get_fields_delivery
GetFieldsDelivery(order_data) ==
    LET shipping == order_data["shipping_address"]
        parts    == GetStreetHousenr(shipping)
    IN  (DELIVERY_STREET :> StrValue(parts.street))
        @@ (DELIVERY_NUMBER :> StrValue(parts.housenr))
        @@ (DELIVERY_CITY :> StrValue(shipping.line4))
        @@ (DELIVERY_POSTCODE :> StrValue(shipping.postcode))
        @@ (DELIVERY_STATE :> StrValue(shipping.state))
        @@ (DELIVERY_COUNTRY :> StrValue(shipping.country_id))
        @@ (DELIVERY_ADDRESS_TYPE :> IF "shipping_visibility" \in DOMAIN order_data
                                     THEN order_data["shipping_visibility"]
                                     ELSE StrValue(<<"2">>))

\* Scaffold.get_fields_billing
GetFieldsBilling(order_data) ==
    LET billing == order_data["billing_address"]
        parts   == GetStreetHousenr(billing)
    IN  (BILLING_STREET :> StrValue(parts.street))
        @@ (BILLING_NUMBER :> StrValue(parts.housenr))
        @@ (BILLING_CITY :> StrValue(billing.line4))
        @@ (BILLING_POSTCODE :> StrValue(billing.postcode))
        @@ (BILLING_STATE :> StrValue(billing.state))
        @@ (BILLING_COUNTRY :> StrValue(billing.country_id))
        @@ (BILLING_ADDRESS_TYPE :> IF "billing_visibility" \in DOMAIN order_data
                                    THEN order_data["billing_visibility"]
                                    ELSE StrValue(<<"2">>))

\* minor_units() of the amount num/den hundredths: int() of the Decimal
\* quantized to an integer, which rounds half to even.
MinorUnits(num, den) ==
    LET q == num \div den
        r == num % den
    IN  IF 2 * r > den THEN q + 1
        ELSE IF 2 * r = den THEN q + (q % 2)
        ELSE q

\* The invoice numbers of an order line; prices are in hundredths, the tax
\* rate in hundredths too.
InvoiceLine(line) ==
    LET perc_tax == MinorUnits(line.unit_tax_rate, 1)
        excl_tax == MinorUnits(line.line_price_excl_tax, line.quantity)
        incl_tax == MinorUnits(line.line_price_incl_tax, line.quantity)
    IN  [perc_tax |-> perc_tax, excl_tax |-> excl_tax, tax |-> incl_tax - excl_tax,
         vat_category |-> IF perc_tax > 1000 THEN <<"High">>
                          ELSE IF perc_tax > 100 THEN <<"Low">> ELSE <<"None">>]

INVOICE_LINE(ref, name) == <<"openinvoicedata.", "line">> \o DecimalDigits(ref) \o <<name>>

RECURSIVE InvoiceCheck(_)
InvoiceCheck(lines) ==
    IF lines = <<>> THEN 0
    ELSE LET n == Len(lines)
             l == InvoiceLine(lines[n])
         IN  InvoiceCheck(SubSeq(lines, 1, n - 1)) + (l.excl_tax + l.tax) * lines[n].quantity

RECURSIVE InvoiceLineFields(_, _)
InvoiceLineFields(order, n) ==
    IF n = 0 THEN NoParams
    ELSE LET line == order.lines[n]
             l    == InvoiceLine(line)
         IN  (INVOICE_LINE(n, ".lineReference") :> IntValue(n))
             @@ (INVOICE_LINE(n, ".currencyCode") :> StrValue(order.currency))
             @@ (INVOICE_LINE(n, ".description") :> StrValue(line.title))
             @@ (INVOICE_LINE(n, ".itemAmount") :> StrValue(Str(IntValue(l.excl_tax))))
             @@ (INVOICE_LINE(n, ".itemVatAmount") :> StrValue(Str(IntValue(l.tax))))
             @@ (INVOICE_LINE(n, ".itemVatPercentage") :> StrValue(Str(IntValue(l.perc_tax))))
             @@ (INVOICE_LINE(n, ".numberOfItems") :> StrValue(Str(IntValue(line.quantity))))
             @@ (INVOICE_LINE(n, ".vatCategory") :> StrValue(l.vat_category))
             @@ InvoiceLineFields(order, n - 1)

\* Scaffold.get_fields_invoice: `asserted` is whether the sum of the lines,
\* as a str, equals the order's amount.
GetFieldsInvoice(order_data) ==
    LET order == order_data["order"]
    IN  [asserted |-> StrValue(Str(IntValue(InvoiceCheck(order.lines)))) = order_data["amount"],
         fields   |-> (INVOICE_NUMLINES :> IntValue(Len(order.lines)))
                      @@ InvoiceLineFields(order, Len(order.lines))]

\* The data of the order that get_field_specs reads inside its try block.
MandatoryOrderData ==
    {"order_number", "client_id", "client_email", "currency_code", "amount",
     "shopper_locale", "country_code"}

\* tests/test_requests.py: the time is frozen at 2014-07-31 17:00 UTC.
SessionValidity == <<"2014-07-31T17:20:00Z">>
ShipBeforeDate == <<"2014-08-30">>

\* What get_field_specs gives when its except clauses are left out: the
\* KeyError of the absent datum.
FieldSpecsUncaught(raised, fields) ==
    [raised |-> IF raised = "MissingFieldException" THEN "KeyError" ELSE raised,
     fields |-> fields]

\* What get_field_specs raised ("none" when it returned) and the field specs.
FieldSpecs(raised, fields) == [raised |-> raised, fields |-> fields]

Optionally(value, key) == IF value = None THEN NoParams ELSE key :> value[1]

Given(order_data, key, fields) == IF key \in DOMAIN order_data THEN fields ELSE NoParams

\* Scaffold.get_field_specs(request, order_data): the sanitized field specs,
\* or the exception raised.  A later group overrides the keys of an earlier.
GetFieldSpecs(cfg, settings, order_data) ==
    IF ~(MandatoryOrderData \subseteq DOMAIN order_data)
    THEN FieldSpecs("MissingFieldException", NoParams)
    ELSE IF "brand_code" \in DOMAIN order_data /\ "issuer_id" \notin DOMAIN order_data
    THEN FieldSpecs("MissingFieldException", NoParams)
    ELSE IF "order" \in DOMAIN order_data /\ ~GetFieldsInvoice(order_data).asserted
    THEN FieldSpecs("AssertionError", NoParams)
    ELSE LET field_specs ==
                 Given(order_data, "order", GetFieldsInvoice(order_data).fields)
                 @@ Given(order_data, "brand_code",
                          (PAYMENT_BRAND_CODE :> order_data["brand_code"])
                          @@ (PAYMENT_ISSUER_ID :> order_data["issuer_id"]))
                 @@ Given(order_data, "billing_address", GetFieldsBilling(order_data))
                 @@ Given(order_data, "shipping_address", GetFieldsDelivery(order_data))
                 @@ Given(order_data, "adyen_shopper", GetFieldsShopper(order_data))
                 @@ Optionally(GetFieldReturnUrl(order_data), MERCHANT_RETURN_URL)
                 @@ Optionally(GetFieldMerchantReturnData(order_data), MERCHANT_RETURN_DATA)
                 @@ Optionally(GetFieldAllowedMethods(settings), ALLOWED_METHODS)
                 @@ (MERCHANT_ACCOUNT :> StrValue(cfg.identifier))
                 @@ (SKIN_CODE :> StrValue(settings.skin_code))
                 @@ (SESSION_VALIDITY :> StrValue(SessionValidity))
                 @@ (SHIP_BEFORE_DATE :> StrValue(ShipBeforeDate))
                 @@ (MERCHANT_REFERENCE :> StrValue(Str(order_data["order_number"])))
                 @@ (SHOPPER_REFERENCE :> order_data["client_id"])
                 @@ (SHOPPER_EMAIL :> order_data["client_email"])
                 @@ (CURRENCY_CODE :> order_data["currency_code"])
                 @@ (PAYMENT_AMOUNT :> order_data["amount"])
                 @@ (SHOPPER_LOCALE :> order_data["shopper_locale"])
                 @@ (COUNTRY_CODE :> order_data["country_code"])
         IN  FieldSpecs("none", [k \in DOMAIN field_specs |-> SanitizeField(field_specs[k])])

\* Scaffold.get_form_fields(request, order_data): the field specs, given to
\* Facade.build_payment_form_fields, which has the gateway validate and sign
\* them.
GetFormFields(cfg, settings, order_data) ==
    LET specs == GetFieldSpecs(cfg, settings, order_data)
        form  == PaymentFormRequest(cfg.hmac_algorithm, cfg.secret_key, specs.fields)
    IN  IF specs.raised # "none" THEN [raised |-> specs.raised, field |-> <<>>, params |-> NoParams]
        ELSE [form EXCEPT !.raised = IF form.raised = "ok" THEN "none" ELSE form.raised]

----------------------------------------------------------------------------
(* SpecForm: an order's payment form is built by the scaffold; the PSP    *)
(* then sends the shopper back with a redirect, or sends a notification,   *)
(* for the payment session the form opened.                                *)

MaxDropped == 1

\* tests/settings.py ADYEN_SKIN_CODE, and ADYEN_ALLOWED_METHODS absent or set
Settings ==
    [skin_code       : {<<"cqQJKZpg">>},
     allowed_methods : {None, Some(<< <<"card">>, <<" ", "bankTransfer", " ">> >>)}]

\* tests/test_requests.py ORDER_DATA: the data the scaffold reads, the return
\* URL aside.  A datum of an optional group is added by OptionalData.
OrderData ==
    ("amount" :> IntValue(123)) @@ ("client_email" :> StrValue(<<"test@example.com">>))
    @@ ("client_id" :> IntValue(789)) @@ ("currency_code" :> StrValue(<<"EUR">>))
    @@ ("country_code" :> StrValue(<<"fr">>))
    @@ ("order_number" :> StrValue(<<"00000000123">>))
    @@ ("shopper_locale" :> StrValue(<<"fr">>))

Amounts ==
    { IntValue(123), StrValue(<<"1", "2", "3">>), StrValue(<<" ", "1", "2", "3", "\n">>) }

Address(line1, line2, city, postcode, country) ==
    [line1 |-> line1, line2 |-> line2, line3 |-> <<>>, line4 |-> city,
     postcode |-> postcode, state |-> <<>>, country_id |-> country]

\* The optional data of an order, group by group: each group is absent
\* (NoParams) or given.  The invoice is an order of one line that adds up to
\* 123, or an order of one line of two items that does not.
OptionalData ==
    [return_url |->
        { NoParams, "return_url" :> StrValue(<<>>),
          "return_url" :> StrValue(<<"https://www.example.com/checkout/return/",
                                     "PAYMENT_PROVIDER_CODE", "/">>) },
     shopper |->
        { NoParams,
          "adyen_shopper" :>
              [data |-> ("first_name" :> <<"John">>) @@ ("last_name" :> <<"Doe">>)
                        @@ ("gender" :> <<"MALE">>) @@ ("phone_number" :> <<"0612345678">>),
               birthdate |-> Some([day |-> 7, month |-> 9, year |-> 1987])],
          ("adyen_shopper" :> [data |-> "first_name" :> <<"John">>, birthdate |-> None])
          @@ ("shopper_visibility" :> StrValue(<<"1">>)) },
     shipping |->
        { NoParams,
          "shipping_address" :>
              Address(<<"Rue de la Paix">>, <<"1", "2">>, <<"Paris">>, <<"75002">>, <<"FR">>) },
     billing |->
        { NoParams,
          "billing_address" :>
              Address(<<"221b Baker Street">>, <<>>, <<"London">>, <<"NW1 6XE">>, <<"GB">>) },
     brand |->
        { NoParams, "brand_code" :> StrValue(<<"ideal">>),
          ("brand_code" :> StrValue(<<"ideal">>)) @@ ("issuer_id" :> StrValue(<<"1121">>)) },
     invoice |->
        { NoParams,
          "order" :> [currency |-> <<"EUR">>,
                      lines |-> << [title |-> <<"Book">>, unit_tax_rate |-> 23,
                                    line_price_excl_tax |-> 100, line_price_incl_tax |-> 123,
                                    quantity |-> 1] >>],
          "order" :> [currency |-> <<"EUR">>,
                      lines |-> << [title |-> <<"Pen">>, unit_tax_rate |-> 2000,
                                    line_price_excl_tax |-> 100, line_price_incl_tax |-> 123,
                                    quantity |-> 2] >>] }]

\* The order data with the given amount, without the dropped mandatory data
\* and with the optional data of `groups`.
OrderDataOf(amount, dropped, groups) ==
    LET given == ("amount" :> amount) @@ OrderData
    IN  groups @@ [k \in DOMAIN given \ dropped |-> given[k]]

\* A scaffold and the order data it is about to be called with: up to
\* MaxDropped of the mandatory data are absent.
InitForm ==
    /\ config \in {cfg \in Configs : cfg.action_url = TestActionUrl}
    /\ store = EmptyBag
    /\ deliveries = [d \in 1..MaxDeliveries |-> Idle]
    /\ \E settings \in Settings, amount \in Amounts,
          dropped \in {D \in SUBSET MandatoryOrderData : Cardinality(D) <= MaxDropped},
          url \in OptionalData.return_url, shopper \in OptionalData.shopper,
          shipping \in OptionalData.shipping, billing \in OptionalData.billing,
          brand \in OptionalData.brand, invoice \in OptionalData.invoice :
           LET order_data == OrderDataOf(amount, dropped,
                                         url @@ shopper @@ shipping @@ billing
                                         @@ brand @@ invoice)
           IN  last = [op |-> "received",
                       request |-> Request("ORDER", order_data, <<"127.0.0.1">>),
                       origin |-> [issued |-> order_data, edits |-> {}],
                       db_ok |-> TRUE, before |-> EmptyBag, outcome |-> NoOutcome,
                       settings |-> settings, form |-> NoParams]

\* Scaffold.get_form_fields(request, order_data)
ScaffoldGetFormFields ==
    LET done == GetFormFields(config, last.settings, last.request.params)
    IN  /\ last.op = "received"
        /\ last.request.method = "ORDER"
        /\ last' = [last EXCEPT
                      !.op = "get_form_fields",
                      !.form = done.params,
                      !.outcome = [NoOutcome EXCEPT !.raised = done.raised,
                                                    !.field = done.field,
                                                    !.details = done.params]]
        /\ UNCHANGED <<config, store, deliveries>>

\* The redirect the PSP signs for the payment session of a form: the
\* session's merchantReference, skinCode, shopperLocale and
\* merchantReturnData come back with the result.
PaymentReturnOf(cfg, form, auth_result) ==
    Signed(cfg,
           (AUTH_RESULT :> auth_result) @@ (PSP_REFERENCE :> P1)
           @@ (PAYMENT_METHOD :> <<"visa">>)
           @@ [k \in {MERCHANT_REFERENCE, SKIN_CODE, SHOPPER_LOCALE, MERCHANT_RETURN_DATA}
                     \cap DOMAIN form |-> form[k]])

\* The notification the PSP sends for the payment session of a form.
PaymentNotificationOf(form, success) ==
    (MERCHANT_REFERENCE :> form[MERCHANT_REFERENCE]) @@ (CURRENCY :> form[CURRENCY_CODE])
    @@ (VALUE :> form[PAYMENT_AMOUNT]) @@ (SUCCESS :> success)
    @@ NotificationParams(P1, FALSE_)

FormIsOut == last.op = "get_form_fields" /\ last.outcome.raised = "none"

ScaffoldHandle(op, request, db_ok) ==
    LET done == ScaffoldHandlePayment(config, store, request, db_ok)
    IN  /\ last' = [last EXCEPT !.op = op, !.request = request, !.db_ok = db_ok,
                                !.before = store, !.outcome = done.outcome]
        /\ store' = done.table
        /\ UNCHANGED <<config, deliveries>>

\* Scaffold.handle_payment_return(request) for the shopper who comes back
\* from the payment pages.
ScaffoldHandlePaymentReturn(auth_result, db_ok) ==
    /\ FormIsOut
    /\ ScaffoldHandle("handle_payment_return",
                      Request("GET", PaymentReturnOf(config, last.form, auth_result),
                              <<"127.0.0.1">>),
                      db_ok)

\* Scaffold.handle_payment_notification(request) for the PSP's notification.
ScaffoldHandlePaymentNotification(success, db_ok) ==
    /\ FormIsOut
    /\ ScaffoldHandle("handle_payment_notification",
                      Request("POST", PaymentNotificationOf(last.form, success),
                              <<"93.16.93.168">>),
                      db_ok)

NextForm ==
    \/ ScaffoldGetFormFields
    \/ \E auth_result \in {PAYMENT_RESULT_AUTHORISED, PAYMENT_RESULT_REFUSED,
                           PAYMENT_RESULT_PENDING},
          db_ok \in BOOLEAN : ScaffoldHandlePaymentReturn(auth_result, db_ok)
    \/ \E success \in {TRUE_, FALSE_}, db_ok \in BOOLEAN :
           ScaffoldHandlePaymentNotification(success, db_ok)

SpecForm == InitForm /\ [][NextForm]_vars

----------------------------------------------------------------------------
(* Properties of the signatures of forms and redirects (SpecMsg)           *)

FormBuilt == last.op = "build_payment_form_fields" /\ last.outcome.raised = "none"

\* The signing string of the payment form: the values of the eighteen keys
\* in their order, '' for an absent key.
FormSigningString(fields) ==
    Get(fields, PAYMENT_AMOUNT, <<>>) \o Get(fields, CURRENCY_CODE, <<>>)
    \o Get(fields, SHIP_BEFORE_DATE, <<>>) \o Get(fields, MERCHANT_REFERENCE, <<>>)
    \o Get(fields, SKIN_CODE, <<>>) \o Get(fields, MERCHANT_ACCOUNT, <<>>)
    \o Get(fields, SESSION_VALIDITY, <<>>) \o Get(fields, SHOPPER_EMAIL, <<>>)
    \o Get(fields, SHOPPER_REFERENCE, <<>>) \o Get(fields, RECURRING_CONTRACT, <<>>)
    \o Get(fields, ALLOWED_METHODS, <<>>) \o Get(fields, BLOCKED_METHODS, <<>>)
    \o Get(fields, SHOPPER_STATEMENT, <<>>) \o Get(fields, MERCHANT_RETURN_DATA, <<>>)
    \o Get(fields, BILLING_ADDRESS_TYPE, <<>>) \o Get(fields, DELIVERY_ADDRESS_TYPE, <<>>)
    \o Get(fields, SHOPPER_TYPE, <<>>) \o Get(fields, OFFSET, <<>>)

\* C21: for every field set the payment form accepts, the merchantSig
\* emitted with the form fields is the signature recomputed over the emitted
\* fields, merchantSig among them: the signature field is not in the key order
\* it signs (nor are the signature fields of HMACSha1.sign in theirs), every
\* other field is emitted with the value it came with, and a merchantSig of
\* the input has no influence on the emitted one.
C21_EmittedSignatureIsTheSignatureOfTheEmittedFields ==
    FormBuilt =>
        LET params  == last.request.params
            emitted == last.outcome.details
            cls     == PaymentFormRequestClass(config.hmac_algorithm)
        IN  /\ MERCHANT_SIG \in DOMAIN emitted
            /\ emitted[MERCHANT_SIG] = Hash(cls, config.secret_key, emitted)
            /\ emitted[MERCHANT_SIG]
                 = ComputeHash(config.hmac_algorithm, config.secret_key,
                               FormSigningString(emitted))
            /\ DOMAIN emitted = DOMAIN params \cup {MERCHANT_SIG}
            /\ \A k \in DOMAIN params \ {MERCHANT_SIG} : emitted[k] = params[k]
            /\ emitted[MERCHANT_SIG]
                 = ComputeHash(config.hmac_algorithm, config.secret_key,
                               FormSigningString(DelField(params, MERCHANT_SIG)))
            /\ HASH_FIELD \notin Range(HASH_KEYS(cls))
            /\ MERCHANT_SIG \notin Range(PAYMENT_FORM_HASH_KEYS)
            /\ DELIVERY_SIG \notin Range(PAYMENT_DELIVERY_HASH_KEYS)
            /\ BILLING_SIG \notin Range(PAYMENT_BILLING_HASH_KEYS)
            /\ SHOPPER_SIG \notin Range(PAYMENT_SHOPPER_HASH_KEYS)

\* A form whose input already has a merchantSig, and a shopperType, is
\* emitted with the signature of its fields in place of the given one.
C21_Witness ==
    /\ FormBuilt
    /\ Get(last.request.params, MERCHANT_SIG, <<>>) = <<"14M4N3V1LH4X0RZ">>
    /\ Get(last.request.params, SHOPPER_TYPE, <<>>) = <<"2">>
    /\ last.outcome.details[MERCHANT_SIG] # <<"14M4N3V1LH4X0RZ">>
    /\ last.outcome.details[MERCHANT_SIG]
         = Hash(PaymentFormRequestClass(config.hmac_algorithm), config.secret_key,
                last.outcome.details)

\* The canonical string of a SHA-256 redirect: the seven key names in their
\* order, then the seven values ('' for an absent key), joined by ':'.
Sha256CanonicalString(params) ==
    AUTH_RESULT \o SEPARATOR \o MERCHANT_REFERENCE \o SEPARATOR
    \o MERCHANT_RETURN_DATA \o SEPARATOR \o PAYMENT_METHOD \o SEPARATOR
    \o PSP_REFERENCE \o SEPARATOR \o SHOPPER_LOCALE \o SEPARATOR \o SKIN_CODE
    \o SEPARATOR \o Get(params, AUTH_RESULT, <<>>)
    \o SEPARATOR \o Get(params, MERCHANT_REFERENCE, <<>>)
    \o SEPARATOR \o Get(params, MERCHANT_RETURN_DATA, <<>>)
    \o SEPARATOR \o Get(params, PAYMENT_METHOD, <<>>)
    \o SEPARATOR \o Get(params, PSP_REFERENCE, <<>>)
    \o SEPARATOR \o Get(params, SHOPPER_LOCALE, <<>>)
    \o SEPARATOR \o Get(params, SKIN_CODE, <<>>)

\* The legacy string of a redirect: the values of the five SHA-1 keys, one
\* after the other.
Sha1ConcatenatedValues(params) ==
    Get(params, AUTH_RESULT, <<>>) \o Get(params, PSP_REFERENCE, <<>>)
    \o Get(params, MERCHANT_REFERENCE, <<>>) \o Get(params, SKIN_CODE, <<>>)
    \o Get(params, MERCHANT_RETURN_DATA, <<>>)

\* C22: the string signed for a SHA-256 redirect is the n key names of the
\* key order, followed by the n values as text ('' for an absent key), the
\* 2n items joined by ':'; a redirect that passes field validation is
\* accepted exactly when its merchantSig is the hash of that string.  The
\* string is not a concatenation of the values alone, which is what a SHA-1
\* redirect is signed over.
C22_Sha256SignsKeyNamesThenValuesJoinedByColon ==
    (Processed("GET") /\ PassesFieldValidation(last.request)) =>
        LET params == last.request.params
            cls    == ResponseClass("GET", config.hmac_algorithm)
            keys   == HASH_KEYS(cls)
        IN  IF config.hmac_algorithm = "SHA256"
            THEN /\ ComputeSignature(cls, keys, params) = Sha256CanonicalString(params)
                 /\ Len(keys) = 7
                 /\ Sha256CanonicalString(params)
                      # Concat([i \in 1..7 |-> Get(params, keys[i], <<>>)])
                 /\ last.outcome.raised = "none"
                      <=> params[MERCHANT_SIG]
                            = ComputeHash("SHA256", config.secret_key,
                                          Sha256CanonicalString(params))
            ELSE /\ ComputeSignature(cls, keys, params) = Sha1ConcatenatedValues(params)
                 /\ last.outcome.raised = "none"
                      <=> params[MERCHANT_SIG]
                            = ComputeHash("SHA1", config.secret_key,
                                          Sha1ConcatenatedValues(params))

\* A SHA-256 redirect without merchantReturnData, pspReference and
\* paymentMethod is accepted with the signature of the colon-joined string.
C22_Witness ==
    /\ Processed("GET")
    /\ config.hmac_algorithm = "SHA256"
    /\ last.outcome.raised = "none"
    /\ last.origin.edits = {}
    /\ MERCHANT_RETURN_DATA \notin DOMAIN last.request.params
    /\ PSP_REFERENCE \notin DOMAIN last.request.params
    /\ last.request.params[MERCHANT_SIG]
         = ComputeHash("SHA256", config.secret_key,
                       Sha256CanonicalString(last.request.params))

----------------------------------------------------------------------------
(* Properties of the payment form built from the order data (SpecForm).    *)
(* `last.origin.issued` is the order data, `last.settings` the settings,   *)
(* `last.form` the form fields that get_form_fields returned.              *)

FormCalled == last.op = "get_form_fields"

OrderDataGiven == DOMAIN last.origin.issued

Returned(op) == last.op = op /\ last.outcome.raised = "none"

\* The integer the order's amount stands for is n: an int datum is n, a str
\* datum has the decimal digits of n in it.
OrderAmountIs(n) ==
    LET amount == last.origin.issued["amount"]
    IN  IF amount.type = "int" THEN amount.int = n
        ELSE Contains(amount.str, DecimalDigits(n))

----------------------------------------------------------------------------
(* Properties of the scaffold's feedback (SpecMsg)                         *)

ScaffoldHandled == last.op = "handle_payment_feedback"

\* The message passes validation: its fields pass field validation and, for
\* a redirect, its merchantSig is the recomputed signature.
PassesValidation(request) ==
    /\ PassesFieldValidation(request)
    /\ request.method = "GET" => request.params[MERCHANT_SIG] = Recomputed(request)

CommonStatuses == {<<"ACCEPTED">>, <<"CANCELLED">>, <<"REFUSED">>, <<"ERROR">>, <<"PENDING">>}

\* The processor's accepted flag and status for a validated message.
AcceptedFlag(request) ==
    IF request.method = "GET" THEN request.params[AUTH_RESULT] = <<"AUTHORISED">>
    ELSE request.params[SUCCESS] = <<"true">>

ProcessorStatus(request) ==
    IF request.method = "GET" THEN request.params[AUTH_RESULT]
    ELSE IF request.params[SUCCESS] = <<"true">> THEN <<"AUTHORISED">> ELSE <<"REFUSED">>

CommonStatusOf(status) ==
    IF status = <<"AUTHORISED">> THEN <<"ACCEPTED">> ELSE status

\* The text the amount is read from is there and is no integer literal.
AmountIsNoInteger(request) ==
    LET text == IF request.method = "GET"
                THEN Get(request.params, MERCHANT_RETURN_DATA, <<"0">>)
                ELSE Get(request.params, VALUE, <<"0">>)
    IN  ~IsIntLiteral(text)

----------------------------------------------------------------------------
(* Properties of the order of the checks on a redirect (SpecMsg)           *)

\* What is wrong with the received redirect, check by check.
RequiredFieldIsMissing ==
    \E key \in {AUTH_RESULT, MERCHANT_REFERENCE, MERCHANT_SIG, SHOPPER_LOCALE, SKIN_CODE} :
        Get(last.request.params, key, <<>>) = <<>>

UnexpectedFieldIsGiven ==
    \E key \in DOMAIN last.request.params :
        key \notin {AUTH_RESULT, MERCHANT_REFERENCE, MERCHANT_SIG, SHOPPER_LOCALE, SKIN_CODE,
                    MERCHANT_RETURN_DATA, PAYMENT_METHOD, PSP_REFERENCE}

SignatureIsWrong ==
    Get(last.request.params, MERCHANT_SIG, <<>>) # Recomputed(last.request)

\* C26: a redirect is checked in a fixed order: presence of the required
\* fields, no unexpected field, the signature, and only then the outcome is
\* read.  The first check that fails decides the exception: a redirect with a
\* required field missing raises MissingFieldException whatever else is
\* wrong with it; one with an unexpected field and no required field missing
\* raises UnexpectedFieldException whatever its signature; the signature
\* decides only for a redirect that passed both field checks.
C26_FirstFailingCheckDecides ==
    Processed("GET") =>
        /\ last.outcome.raised =
             IF RequiredFieldIsMissing THEN "MissingFieldException"
             ELSE IF UnexpectedFieldIsGiven THEN "UnexpectedFieldException"
             ELSE IF SignatureIsWrong THEN "InvalidTransactionException"
             ELSE "none"
        /\ last.outcome.raised = "InvalidTransactionException"
             => ~RequiredFieldIsMissing /\ ~UnexpectedFieldIsGiven
        /\ last.outcome.raised = "none"
             => /\ last.outcome.status = last.request.params[AUTH_RESULT]
                /\ last.outcome.success
                     <=> last.request.params[AUTH_RESULT] = <<"AUTHORISED">>

\* A redirect with skinCode missing, an unknown field and so a signature
\* that does not match: the missing field is what is reported.
C26_Witness ==
    /\ Processed("GET")
    /\ SKIN_CODE \notin DOMAIN last.request.params
    /\ UnexpectedFieldIsGiven
    /\ SignatureIsWrong
    /\ Get(last.request.params, MERCHANT_SIG, <<>>) # <<>>
    /\ last.outcome.raised = "MissingFieldException"
    /\ last.outcome.field = SKIN_CODE

\* The order data have every mandatory datum, and an issuer id with a brand
\* code.
OrderIsComplete ==
    /\ {"order_number", "client_id", "client_email", "currency_code", "amount",
        "shopper_locale", "country_code"} \subseteq OrderDataGiven
    /\ "brand_code" \in OrderDataGiven => "issuer_id" \in OrderDataGiven

\* C27: for order data with every mandatory datum, and any combination of
\* the optional groups (shopper data, shipping address, billing address,
\* brand code with issuer id, invoice lines, return URL, allowed methods),
\* the fields assembled by get_field_specs pass the field validation of the
\* payment form: no UnexpectedFieldException is raised, and a form that is
\* returned has its signature field.
C27_AssembledFieldsPassTheFormValidator ==
    (FormCalled /\ OrderIsComplete)
    => /\ last.outcome.raised # "UnexpectedFieldException"
       /\ last.outcome.raised = "none" => MERCHANT_SIG \in DOMAIN last.form

\* The order of tests/test_requests.py with the shopper's data added: the
\* form is refused with UnexpectedFieldException.
C27_Witness ==
    /\ FormCalled
    /\ OrderIsComplete
    /\ OrderDataGiven
         = {"order_number", "client_id", "client_email", "currency_code", "amount",
            "shopper_locale", "country_code", "adyen_shopper"}
    /\ last.outcome.raised = "UnexpectedFieldException"
    /\ last.form = NoParams

----------------------------------------------------------------------------
(* Properties of the shared store of Transaction Records (Spec)            *)

InsertFailed == Handled /\ last.outcome.raised = "none" /\ ~last.db_ok

SameReference(a, b) ==
    /\ PSP_REFERENCE \in DOMAIN a.params
    /\ PSP_REFERENCE \in DOMAIN b.params
    /\ a.params[PSP_REFERENCE] = b.params[PSP_REFERENCE]

\* C28: when the insert of the Transaction Record fails,
\* process_payment_feedback raises nothing and returns the triple it returns
\* when the insert succeeds; the store is left as it was, so an AUTHORISATION
\* notification with the same PSP reference is assessed afterwards as it was
\* before: not as recorded (a notification that is no test notification is
\* to be processed), unless a record of that reference was there already.
C28_FailedInsertIsSilentAndLeavesTheStore ==
    /\ (Handled /\ ~last.db_ok)
       => /\ last.outcome
               = ProcessPaymentFeedback(config, last.before, last.request, TRUE).outcome
          /\ last.outcome.raised \in ValidationExceptions \cup {"ValueError", "none"}
          /\ store = last.before
    /\ InsertFailed
       => \A request \in PostRequests :
             (IsAuthorisationForPlatform(request) /\ SameReference(request, last.request))
             => /\ AssessNotificationRelevance(config, store, request)
                     = AssessNotificationRelevance(config, last.before, request)
                /\ ( /\ ~HasRecordOf(last.before, request)
                     /\ ~Contains(request.params[PSP_REFERENCE], TEST_REFERENCE_PREFIX) )
                     => AssessNotificationRelevance(config, store, request)
                          = Relevance(TRUE, TRUE)

\* The authorised notification is handled while the insert fails: it
\* returns success, the store stays empty, and the notification is still to
\* be processed.
C28_Witness ==
    /\ InsertFailed
    /\ last.op = "handle_payment_notification"
    /\ IsAuthorisationForPlatform(last.request)
    /\ last.request.params[PSP_REFERENCE] = P1
    /\ last.outcome.success
    /\ last.outcome.status = PAYMENT_RESULT_AUTHORISED
    /\ store = EmptyBag
    /\ AssessNotificationRelevance(config, store, last.request) = Relevance(TRUE, TRUE)

\* The number of records of the store that have the reference.
RECURSIVE CountOf(_, _, _)
CountOf(table, rows, reference) ==
    IF rows = {} THEN 0
    ELSE LET row == CHOOSE r \in rows : TRUE
         IN  (IF row.reference = reference THEN CopiesIn(row, table) ELSE 0)
             + CountOf(table, rows \ {row}, reference)

RecordsWith(table, reference) == CountOf(table, BagToSet(table), reference)

ReturnRecorded ==
    /\ last.op = "handle_payment_return"
    /\ last.outcome.raised = "none"
    /\ last.db_ok

----------------------------------------------------------------------------
(* Properties of the fields a redirect's signature leaves out (SpecMsg)    *)

\* The received redirect is an issued one in which shopperLocale or
\* paymentMethod was given another, non-empty value.
LocaleOrMethodReplaced ==
    /\ Processed("GET")
    /\ \E edit \in last.origin.edits :
          /\ last.origin.edits = {edit}
          /\ edit.key \in {SHOPPER_LOCALE, PAYMENT_METHOD}
          /\ ~edit.del
          /\ edit.value # <<>>
          /\ edit.value # Get(last.origin.issued, edit.key, <<>>)

\* C30: under SHA-1 the signature of a redirect covers authResult,
\* pspReference, merchantReference, skinCode and merchantReturnData only, so
\* a validly signed redirect in which shopperLocale or paymentMethod was
\* replaced by another non-empty value still passes validation, with the
\* accepted flag and the status of the redirect as issued.  Under SHA-256
\* both fields are signed and the changed redirect is rejected with
\* InvalidTransactionException.
C30_Sha1LeavesLocaleAndMethodUnsigned ==
    LocaleOrMethodReplaced =>
        IF config.hmac_algorithm = "SHA1"
        THEN /\ last.outcome.raised = "none"
             /\ last.outcome.status = last.origin.issued[AUTH_RESULT]
             /\ last.outcome.success
                  <=> last.origin.issued[AUTH_RESULT] = <<"AUTHORISED">>
             /\ Range(HASH_KEYS(ResponseClass("GET", "SHA1")))
                  = {AUTH_RESULT, PSP_REFERENCE, MERCHANT_REFERENCE, SKIN_CODE,
                     MERCHANT_RETURN_DATA}
        ELSE /\ last.outcome.raised = "InvalidTransactionException"
             /\ {SHOPPER_LOCALE, PAYMENT_METHOD}
                  \subseteq Range(HASH_KEYS(ResponseClass("GET", "SHA256")))

\* Under SHA-1 the authorised redirect with shopperLocale changed from en_GB
\* to zz is accepted.
C30_Witness ==
    /\ LocaleOrMethodReplaced
    /\ config.hmac_algorithm = "SHA1"
    /\ last.origin.issued[SHOPPER_LOCALE] = <<"en_GB">>
    /\ last.request.params[SHOPPER_LOCALE] = <<"zz">>
    /\ last.origin.issued[AUTH_RESULT] = <<"AUTHORISED">>
    /\ last.outcome.raised = "none"
    /\ last.outcome.success

====
